---- MODULE Spec2Model ----
(***************************************************************************)
(* DPR_GRPO (src/GRPO/GRPO.py): GRPO fine-tuning of the DPR denoiser.      *)
(*                                                                         *)
(* Three specifications over one set of variables:                         *)
(*   Spec        the life cycle of a DPR_GRPO module under the Lightning   *)
(*               trainer: construction, configure_optimizers,              *)
(*               training_step, optimizer update, validation_step,         *)
(*               on_train_epoch_end; parameters are objects in a store;    *)
(*   SpecLoss    one call of forward_and_get_loss (the GRPO branch),       *)
(*               stage by stage, on inputs drawn from bounded sets;        *)
(*   SpecReward  compute_grpo_trajectory_reward on a pair of inputs.       *)
(*                                                                         *)
(* Real numbers are exact rationals <<n, d>> in lowest terms, d > 0.       *)
(***************************************************************************)
EXTENDS Integers, Sequences, FiniteSets, TLC

VARIABLES
    cfg,              \* the configuration dictionary self.cfg / self._train_*
    params,           \* parameter object -> [data, requires_grad]
    params_to_update, \* the parameter objects handed to AdamW
    phase,            \* "constructed" | "fitting" | "failed"
    lastOp,           \* the handler that ran last
    fwd,              \* what the last forward pass read, or NoForward
    current_epoch,    \* trainer.current_epoch
    loss,             \* SpecLoss: the locals of forward_and_get_loss
    rw,               \* SpecReward: inputs and results of the reward
    buffers,          \* the registered buffers action_mean, action_std
    sup,              \* SpecSup: the locals of the supervised forward_and_get_loss
    rt,               \* SpecRoundTrip: an action tensor and the conversions applied to it
    fn                \* one call of a function of the module: its arguments and result

vars == <<cfg, params, params_to_update, phase, lastOp, fwd, current_epoch, loss, rw,
          buffers, sup, rt, fn>>

lifeVars == <<cfg, params, params_to_update, phase, lastOp, fwd, current_epoch, buffers>>

(***************************************************************************)
(* Bounds                                                                  *)
(***************************************************************************)
MaxParamVal == 1        \* parameter values are 0..MaxParamVal
MaxEpochs == 2          \* epochs the trainer runs
GroupSize == 2          \* cfg['group_size'], G
BatchSize == 2          \* B
NumAgents == 2          \* cfg['agents_len'], A (and N of the reward)
NumActions == 1         \* action steps per agent, T of gt_actions
NumSteps == 3           \* noise_scheduler.num_steps
TrajLen == 2            \* timesteps of a rolled-out trajectory
NumQueries == 2         \* goal candidates (anchors) of an agent
MaxAction == 1          \* action values are n and n/3 for |n| <= MaxAction
MaxConversions == 2     \* conversions applied to one action tensor
MetricAgents == 9       \* agents of a stand-alone calculate_metrics_denoise call

\* the top_k argument of calculate_metrics_denoise in forward_and_get_loss
TopK == 8

(***************************************************************************)
(* Exact rational arithmetic                                               *)
(***************************************************************************)
Abs(n) == IF n < 0 THEN -n ELSE n

RECURSIVE GCD(_, _)
GCD(a, b) == IF b = 0 THEN a ELSE GCD(b, a % b)

RNorm(n, d) ==
    LET s == IF d < 0 THEN -1 ELSE 1
        g == GCD(Abs(n), Abs(d))
    IN  <<(s * n) \div g, (s * d) \div g>>

R(n) == <<n, 1>>
RNeg(a) == <<-a[1], a[2]>>
RInv(a) == IF a[1] < 0 THEN <<-a[2], -a[1]>> ELSE <<a[2], a[1]>>

\* sums and products cancel common factors before they multiply
RAddBy(a, b, g) == RNorm(a[1] * (b[2] \div g) + b[1] * (a[2] \div g), (a[2] \div g) * b[2])
RAdd(a, b) == RAddBy(a, b, GCD(a[2], b[2]))
RSub(a, b) == RAdd(a, RNeg(b))
RMulBy(a, b, g1, g2) ==
    <<(a[1] \div g1) * (b[1] \div g2), (a[2] \div g2) * (b[2] \div g1)>>
RMul(a, b) == RMulBy(a, b, GCD(Abs(a[1]), b[2]), GCD(Abs(b[1]), a[2]))
RDiv(a, b) == RMul(a, RInv(b))
RLess(a, b) == a[1] * b[2] < b[1] * a[2]
RLeq(a, b) == a[1] * b[2] <= b[1] * a[2]
RSq(a) == RMul(a, a)

RECURSIVE RSum(_)
RSum(s) == IF s = <<>> THEN R(0) ELSE RAdd(Head(s), RSum(Tail(s)))

(***************************************************************************)
(* Parameter objects.  A module owns parameter objects; an object has a    *)
(* value and a requires_grad flag.  Decoder's state_dict keys are          *)
(* abstracted to ParamKeys.                                                *)
(***************************************************************************)
ParamKeys == {"weight", "bias"}
ParamVals == 0..MaxParamVal

Obj(module, key) == <<module, key>>

\* copy.deepcopy(module): every parameter is a new object owned by the copy
DeepCopy(p, owner) == Obj(owner, p[2])

\* self.denoiser = Decoder(...)
DenoiserParam(k) == Obj("denoiser", k)

ShallowCopyParam(k) == DenoiserParam(k)

\* self.reference_model = copy.deepcopy(self.denoiser)
ReferenceParam(k) == DeepCopy(DenoiserParam(k), "reference_model")

DenoiserParams == {DenoiserParam(k) : k \in ParamKeys}
ReferenceParams == {ReferenceParam(k) : k \in ParamKeys}
EncoderParams == {Obj("encoder", "weight")}
PredictorParams(c) == IF c.with_predictor THEN {Obj("predictor", "weight")} ELSE {}

\* self.parameters(): the parameter objects of every sub-module, each once
Parameters(c) == EncoderParams \cup DenoiserParams \cup ReferenceParams \cup PredictorParams(c)

DenoiserValues == [k \in ParamKeys |-> params[DenoiserParam(k)].data]
ReferenceValues == [k \in ParamKeys |-> params[ReferenceParam(k)].data]

\* cfg['train_predictor'] as configured, predictor or not
TrainPredictorAsConfigured(c) == c.train_predictor

\* self._train_predictor after __init__ (forced False without a predictor)
TrainPredictor(c) == c.with_predictor /\ c.train_predictor

CfgSpace ==
    [train_encoder : BOOLEAN, train_denoiser : BOOLEAN,
     train_predictor : BOOLEAN, with_predictor : BOOLEAN]

NoForward == [read |-> FALSE]
NoLoss == [pc |-> "idle"]
NoReward == [pc |-> "idle"]
NoSup == [pc |-> "idle"]
NoRoundTrip == [applied |-> <<>>]
NoCall == [op |-> "none"]

(***************************************************************************)
(* __init__                                                                *)
(***************************************************************************)
\* for p in self.reference_model.parameters(): p.requires_grad = False
FreezeReference(ps) ==
    [a \in DOMAIN ps |->
        IF a \in ReferenceParams THEN [ps[a] EXCEPT !.requires_grad = FALSE] ELSE ps[a]]

Construct(c, den, enc, pred) ==
    LET fresh == [a \in Parameters(c) |->
                    [data |-> IF a \in DenoiserParams THEN den[a[2]]
                              ELSE IF a \in ReferenceParams THEN den[a[2]]
                              ELSE IF a \in EncoderParams THEN enc
                              ELSE pred,
                     requires_grad |-> TRUE]]
    IN  FreezeReference(fresh)

InitLife ==
    /\ cfg \in CfgSpace
    /\ \E den \in [ParamKeys -> ParamVals], enc \in ParamVals, pred \in ParamVals :
          params = Construct(cfg, den, enc, pred)
    /\ params_to_update = {}
    /\ phase = "constructed"
    /\ lastOp = "__init__"
    /\ fwd = NoForward
    /\ current_epoch = 0

(***************************************************************************)
(* configure_optimizers                                                    *)
(***************************************************************************)
FrozenButPredictor(c) ==
    (IF c.train_encoder THEN {} ELSE EncoderParams)
    \cup (IF c.train_denoiser THEN {} ELSE DenoiserParams)

\* lines 111-119: the parameters whose requires_grad is set to False
Frozen(c) ==
    (IF c.train_encoder THEN {} ELSE EncoderParams)
    \cup (IF c.train_denoiser THEN {} ELSE DenoiserParams)
    \cup (IF c.with_predictor /\ ~c.train_predictor THEN PredictorParams(c) ELSE {})

ParamsToUpdateAll(ps) == DOMAIN ps

\* params_to_update: every parameter of the module with requires_grad == True
ParamsToUpdate(ps) == {a \in DOMAIN ps : ps[a].requires_grad}

configure_optimizers ==
    /\ phase = "constructed"
    /\ LET gated == [a \in DOMAIN params |->
                       IF a \in Frozen(cfg)
                       THEN [params[a] EXCEPT !.requires_grad = FALSE]
                       ELSE params[a]]
       IN  /\ params' = gated
           /\ params_to_update' = ParamsToUpdate(gated)
           \* assert len(params_to_update) > 0
           /\ phase' = IF ParamsToUpdate(gated) = {} THEN "failed" ELSE "fitting"
    /\ lastOp' = "configure_optimizers"
    /\ UNCHANGED <<cfg, fwd, current_epoch, loss, rw, buffers, sup, rt, fn>>

(***************************************************************************)
(* training_step / validation_step: forward_and_get_loss reads the         *)
(* denoiser and the reference model when the denoiser is trained.          *)
(***************************************************************************)
\* total_loss stays the int 0 when neither branch runs: .item() raises
StepRaises(c) == ~c.train_denoiser /\ ~TrainPredictor(c)

Forward(c) ==
    IF c.train_denoiser
    THEN [read |-> TRUE, denoiser |-> DenoiserValues, reference |-> ReferenceValues]
    ELSE NoForward

training_step ==
    /\ phase = "fitting"
    /\ current_epoch < MaxEpochs
    /\ fwd' = Forward(cfg)
    /\ lastOp' = IF StepRaises(cfg) THEN "error" ELSE "training_step"
    /\ phase' = IF StepRaises(cfg) THEN "failed" ELSE phase
    /\ UNCHANGED <<cfg, params, params_to_update, current_epoch, loss, rw, buffers, sup, rt, fn>>

validation_step ==
    /\ phase = "fitting"
    /\ current_epoch < MaxEpochs
    /\ fwd' = Forward(cfg)
    /\ lastOp' = IF StepRaises(cfg) THEN "error" ELSE "validation_step"
    /\ phase' = IF StepRaises(cfg) THEN "failed" ELSE phase
    /\ UNCHANGED <<cfg, params, params_to_update, current_epoch, loss, rw, buffers, sup, rt, fn>>

(***************************************************************************)
(* The optimizer update that follows a training step: AdamW writes, in     *)
(* place, every parameter object it was given.                             *)
(***************************************************************************)
optimizer_step ==
    /\ phase = "fitting"
    /\ lastOp = "training_step"
    /\ \E new \in [params_to_update -> ParamVals] :
          params' = [a \in DOMAIN params |->
                       IF a \in params_to_update
                       THEN [params[a] EXCEPT !.data = new[a]]
                       ELSE params[a]]
    /\ lastOp' = "optimizer_step"
    /\ fwd' = NoForward
    /\ UNCHANGED <<cfg, params_to_update, phase, current_epoch, loss, rw, buffers, sup, rt, fn>>

(***************************************************************************)
(* on_train_epoch_end                                                      *)
(***************************************************************************)
\* self.denoiser.state_dict(), deep-copied: key -> value
StateDict(ps) == [k \in ParamKeys |-> ps[DenoiserParam(k)].data]

LoadStateDictPartial(ps, sd) ==
    [a \in DOMAIN ps |->
        IF a = ReferenceParam("weight") THEN [ps[a] EXCEPT !.data = sd[a[2]]] ELSE ps[a]]

\* reference_model.load_state_dict(sd): param.copy_(sd[key]) for every key;
\* copy_ writes the value in place and leaves requires_grad as it was
LoadStateDict(ps, sd) ==
    [a \in DOMAIN ps |->
        IF a \in ReferenceParams THEN [ps[a] EXCEPT !.data = sd[a[2]]] ELSE ps[a]]

on_train_epoch_end ==
    /\ phase = "fitting"
    /\ current_epoch < MaxEpochs
    /\ lastOp \in {"training_step", "optimizer_step", "validation_step"}
    /\ params' = LoadStateDict(params, StateDict(params))
    /\ current_epoch' = current_epoch + 1
    /\ lastOp' = "on_train_epoch_end"
    /\ fwd' = NoForward
    /\ UNCHANGED <<cfg, params_to_update, phase, loss, rw, buffers, sup, rt, fn>>


(***************************************************************************)
(* forward_and_get_loss, GRPO branch.  Tensors:                            *)
(*   [B, A, T, D] actions    b -> (<<a, t, d>> -> rational)                *)
(*   [B, A, T]    validity   b -> (<<a, t>> -> BOOLEAN)                    *)
(*   [B, A]       timesteps  b -> (a -> 0..NumSteps-1)                     *)
(*   [R, C]       2-D tensor [shape |-> <<R, C>>, data |-> row-major seq]  *)
(***************************************************************************)
Group == 1..GroupSize
Batch == 1..BatchSize
Agents == 1..NumAgents
ActSteps == 1..NumActions
Chan == {"accel", "yaw"}
Slots == Agents \X ActSteps \X Chan

\* ---- DDPM_Sampler (AAAI2025.DPR.model.utils) ----
\* sqrt(alpha_bar_t) and sqrt(1 - alpha_bar_t): a monotone schedule whose
\* square roots are rational; t = 0 is the no-op
SqrtAlphaBar(t) ==
    CASE t = 0 -> R(1) [] t = 1 -> <<4, 5>> [] t = 2 -> <<3, 5>>
      [] t = 3 -> <<5, 13>> [] OTHER -> <<7, 25>>

SqrtOneMinusAlphaBar(t) ==
    CASE t = 0 -> R(0) [] t = 1 -> <<3, 5>> [] t = 2 -> <<4, 5>>
      [] t = 3 -> <<12, 13>> [] OTHER -> <<24, 25>>

\* add_noise(x0, noise, t) on one batch element; t is [A]
AddNoise(x0, noise, t) ==
    [s \in Slots |->
        RAdd(RMul(SqrtAlphaBar(t[s[1]]), x0[s]),
             RMul(SqrtOneMinusAlphaBar(t[s[1]]), noise[s]))]

\* q_x0(model_output, t, x_t, prediction_type) on one batch element
QX0(model_output, t, x_t, prediction_type) ==
    IF prediction_type = "error"
    THEN [s \in Slots |->
            RDiv(RSub(x_t[s], RMul(SqrtOneMinusAlphaBar(t[s[1]]), model_output[s])),
                 SqrtAlphaBar(t[s[1]]))]
    ELSE model_output

\* ---- normalize_actions / unnormalize_actions ----
normalize_actions(c, actions) ==
    [s \in Slots |-> RDiv(RSub(actions[s], c.action_mean[s[3]]), c.action_std[s[3]])]

UnnormalizeShiftFirst(c, actions) ==
    [s \in Slots |-> RMul(RAdd(actions[s], c.action_mean[s[3]]), c.action_std[s[3]])]

\* actions * self.action_std + self.action_mean
unnormalize_actions(c, actions) ==
    [s \in Slots |-> RAdd(RMul(actions[s], c.action_std[s[3]]), c.action_mean[s[3]])]

\* ---- 2-D tensors ----
\* the n elements of a new tensor, written to its storage in index order
Storage(elems, n) == SubSeq(elems, 1, n)

\* torch.stack(list, dim=0) of R tensors of shape [C]
Stack(list, rows, cols) ==
    [shape |-> <<rows, cols>>,
     data |-> Storage([i \in 1..(rows * cols) |->
                         list[((i - 1) \div cols) + 1][((i - 1) % cols) + 1]], rows * cols)]

At(X, i, j) == X.data[(i - 1) * X.shape[2] + j]

NoPermute(X) == X

\* X.permute(1, 0).contiguous(): the transpose, laid out row-major
Permute10(X) ==
    LET rows == X.shape[2]
        cols == X.shape[1]
    IN  [shape |-> <<rows, cols>>,
         data |-> Storage([i \in 1..(rows * cols) |->
                             At(X, ((i - 1) % cols) + 1, ((i - 1) \div cols) + 1)],
                          rows * cols)]

\* X.view(rows, cols): the same storage read with another shape
View(X, rows, cols) == [shape |-> <<rows, cols>>, data |-> X.data]

\* the tensor of X's shape with the given elements
Like(X, elems) == [shape |-> X.shape, data |-> Storage(elems, Len(X.data))]

\* X.mean(dim=1, keepdim=True), as the sequence of the row means
MeanDim1(X) ==
    Storage([i \in 1..X.shape[1] |->
                RDiv(RSum([j \in 1..X.shape[2] |-> At(X, i, j)]), R(X.shape[2]))],
            X.shape[1])

\* X.mean() over every element
MeanAll(X) == RDiv(RSum(X.data), R(Len(X.data)))


(***************************************************************************)
(* compute_grpo_trajectory_reward(trajectories, actions, v_target,         *)
(* collision_dist): trajectories[g][b][<<n, t>>] is a state                *)
(* [x, y, theta, v_x, v_y]; actions[g][b][<<n, a, d>>], or NoActions.      *)
(***************************************************************************)
TrajSteps == 1..TrajLen
NoActions == <<>>

RECURSIVE Bisect(_, _, _)
Halve(n, lo, hi, mid) == IF mid * mid <= n THEN Bisect(n, mid, hi) ELSE Bisect(n, lo, mid)
Bisect(n, lo, hi) == IF hi - lo <= 1 THEN lo ELSE Halve(n, lo, hi, (lo + hi) \div 2)

\* floor of the square root
ISqrt(n) == Bisect(n, 0, IF n < 46340 THEN n + 1 ELSE 46340)

\* torch.sqrt: exact on squares of rationals, else to two decimals
RSqrtFrom(q, a, b) ==
    IF a * a = q[1] /\ b * b = q[2] THEN <<a, b>>
    ELSE RNorm(ISqrt(q[1] * q[2] * 10000), q[2] * 100)
RSqrt(q) == RSqrtFrom(q, ISqrt(q[1]), ISqrt(q[2]))

\* the lesser of the two
RLower(a, b) == IF RLess(a, b) THEN a ELSE b

\* Tensor.clamp(min=b) on one element
RMax(a, b) == IF RLess(a, b) THEN b ELSE a
RMin(a, b) == IF RLess(b, a) THEN b ELSE a

RECURSIVE RMinSeq(_)
RMinSeq(s) == IF Len(s) = 1 THEN s[1] ELSE RMin(s[1], RMinSeq(Tail(s)))

\* the elements of X[g][b] in index order (X[g][b] is a function on idx)
Flat(f, idx) == Storage([i \in 1..Len(idx) |-> f[idx[i]]], Len(idx))

\* <<n, t>> for n in 1..N, t in 1..K, row-major
Grid(N, K) == [i \in 1..(N * K) |-> <<((i - 1) \div K) + 1, ((i - 1) % K) + 1>>]

MeanDims123(X, g, b, idx) ==
    RDiv(RSum([i \in 1..(BatchSize * Len(idx)) |->
                 X[g][((i - 1) \div Len(idx)) + 1][idx[((i - 1) % Len(idx)) + 1]]]),
         R(BatchSize * Len(idx)))

\* the function f written out as a table
Stored(f) == f @@ <<>>

\* torch.mean(X, dim=(2, 3))[g, b]
MeanDims23(X, g, b, idx) == RDiv(RSum(Flat(X[g][b], idx)), R(Len(idx)))

DefaultWeights ==
    [smoothness |-> R(1), speed |-> R(1), orientation |-> R(1),
     collision |-> R(2), action_accel |-> R(1), action_yaw |-> R(1)]

\* torch.cdist(pos[g, b, :, t], pos[g, b, :, t])[mask].min(): the least
\* distance between two different agents at time t
MinPairDist(states, t) ==
    LET pairs == Grid(NumAgents, NumAgents)
        off == SelectSeq(pairs, LAMBDA p : p[1] # p[2])
        d(p) == RSqrt(RAdd(RSq(RSub(states[<<p[1], t>>].x, states[<<p[2], t>>].x)),
                           RSq(RSub(states[<<p[1], t>>].y, states[<<p[2], t>>].y))))
    IN  RMinSeq([i \in 1..Len(off) |-> d(off[i])])

\* v = torch.sqrt(v_x**2 + v_y**2), [G, B, N, T]
Speed(trajectories) ==
    Storage([g \in Group |-> Storage([b \in Batch |->
                Stored([i \in (Agents \X TrajSteps) |->
                    RSqrt(RAdd(RSq(trajectories[g][b][i].v_x),
                               RSq(trajectories[g][b][i].v_y)))])], BatchSize)], GroupSize)

\* the body of compute_grpo_trajectory_reward after v
RewardFrom(trajectories, actions, v, v_target, collision_dist) ==
    LET weights == DefaultWeights
        all == Grid(NumAgents, TrajLen)
        butLast == Grid(NumAgents, TrajLen - 1)
        \* 1. smoothness
        acc2 == [g \in Group |-> [b \in Batch |-> [i \in {<<n, t>> \in (Agents \X TrajSteps) : t < TrajLen} |->
                RSq(RSub(v[g][b][<<i[1], i[2] + 1>>], v[g][b][i]))]]]
        smoothness_reward(g, b) == RNeg(MeanDims23(acc2, g, b, butLast))
        \* 2. speed
        speed_diff == [g \in Group |-> [b \in Batch |-> [i \in (Agents \X TrajSteps) |->
                RSq(RSub(v[g][b][i], v_target))]]]
        speed_reward(g, b) == RNeg(MeanDims23(speed_diff, g, b, all))
        \* 3. orientation
        d_theta2 == [g \in Group |-> [b \in Batch |-> [i \in {<<n, t>> \in (Agents \X TrajSteps) : t < TrajLen} |->
                RSq(RSub(trajectories[g][b][<<i[1], i[2] + 1>>].theta, trajectories[g][b][i].theta))]]]
        orientation_reward(g, b) == RNeg(MeanDims23(d_theta2, g, b, butLast))
        \* 4. collision
        collision_penalty(g, b) ==
            RDiv(RSum([t \in TrajSteps |->
                    RSq(RMax(RSub(collision_dist, MinPairDist(trajectories[g][b], t)), R(0)))]),
                 R(TrajLen))
        \* 5. action penalty
        slots == [i \in 1..(NumAgents * NumActions) |->
                    <<((i - 1) \div NumActions) + 1, ((i - 1) % NumActions) + 1>>]
        accel2 == [g \in Group |-> [b \in Batch |-> [i \in Agents \X ActSteps |->
                RSq(actions[g][b][<<i[1], i[2], "accel">>])]]]
        yaw2 == [g \in Group |-> [b \in Batch |-> [i \in Agents \X ActSteps |->
                RSq(actions[g][b][<<i[1], i[2], "yaw">>])]]]
        accel_penalty(g, b) ==
            IF actions = NoActions THEN R(0) ELSE RNeg(MeanDims23(accel2, g, b, slots))
        yaw_penalty(g, b) ==
            IF actions = NoActions THEN R(0) ELSE RNeg(MeanDims23(yaw2, g, b, slots))
        total_reward(g, b) ==
            RAdd(RAdd(RAdd(RMul(weights.smoothness, smoothness_reward(g, b)),
                           RMul(weights.speed, speed_reward(g, b))),
                      RSub(RMul(weights.orientation, orientation_reward(g, b)),
                           RMul(weights.collision, collision_penalty(g, b)))),
                 RAdd(RMul(weights.action_accel, accel_penalty(g, b)),
                      RMul(weights.action_yaw, yaw_penalty(g, b))))
    IN  Stack([g \in Group |-> [b \in Batch |-> total_reward(g, b)]], GroupSize, BatchSize)

compute_grpo_trajectory_reward(trajectories, actions, v_target, collision_dist) ==
    RewardFrom(trajectories, actions, Speed(trajectories), v_target, collision_dist)


(***************************************************************************)
(* Inputs of one forward_and_get_loss call.  The batch, the random draws   *)
(* (randint, randn) and the outputs of the two networks and of roll_out    *)
(* are drawn at Init; the stages below apply the code to them.  One cell   *)
(* (g, b) of the group is singled out and given its own draws.             *)
(***************************************************************************)
Channels(a, y) == [accel |-> a, yaw |-> y]

\* cfg['action_mean'], cfg['action_std']: the identity and a proper scaling
Normalizations ==
    {[mean |-> Channels(R(0), R(0)), std |-> Channels(R(1), R(1))],
     [mean |-> Channels(R(1), R(0)), std |-> Channels(R(2), R(1))]}

\* self.register_buffer('action_mean', ...), self.register_buffer('action_std', ...)
RegisterBuffers(mean, std) == [action_mean |-> mean, action_std |-> std]

LossCfgs ==
    {[action_mean |-> n.mean, action_std |-> n.std, prediction_type |-> pt,
      beta |-> <<1, 10>>, group_size |-> GroupSize] :
        n \in Normalizations, pt \in {"sample", "error"}}

MaskPatterns == {"all", "first", "none"}
BaseDevs == {[cur |-> 0, old |-> 0], [cur |-> 1, old |-> 0], [cur |-> 5, old |-> 0],
             [cur |-> 1, old |-> 1]}
CellDevs == {[cur |-> 0, old |-> 0], [cur |-> 0, old |-> 1], [cur |-> 1, old |-> 0],
             [cur |-> 0, old |-> 5], [cur |-> 5, old |-> 0], [cur |-> 1, old |-> 1]}

\* a rolled-out trajectory [N, T, 5]
TrajPattern(k) ==
    [i \in Agents \X TrajSteps |->
        CASE k = 1 -> [x |-> R(5 * i[2]), y |-> R(10 * i[1]), theta |-> R(0),
                       v_x |-> R(5), v_y |-> R(0)]
          [] k = 2 -> [x |-> R(i[2]), y |-> R(i[1]), theta |-> R(i[2] % 2),
                       v_x |-> R(3 * (i[2] % 2)), v_y |-> R(4 * (i[2] % 2))]
          [] OTHER -> [x |-> R(0), y |-> R(3 * i[1]), theta |-> R(i[2]),
                       v_x |-> R(3), v_y |-> R(0)]]

Shift(x, d) == [s \in Slots |-> RAdd(x[s], R(d))]

LossInput(c, cell, mask, t0, nz, base, dev, bad) ==
    LET gt == [b \in Batch |-> [s \in Slots |-> R(IF b = cell[2] THEN 1 ELSE 0)]]
        gtn == [b \in Batch |-> normalize_actions(c, gt[b])]
        at(g, b) == IF <<g, b>> = cell THEN dev ELSE base
    IN  [cfg |-> c,
         encoder_outputs |-> [agents |-> [b \in Batch |-> IF b = cell[2] THEN "scene1" ELSE "scene0"]],
         agents_future_41 |-> gt,
         \* batch['agents_future'], batch['agents_interested']: the states of
         \* an agent without valid actions are all 0
         agents_future |->
            [b \in Batch |-> [i \in Agents \X (0..TrajLen) |->
                IF mask = "none" \/ (mask = "first" /\ i[1] # 1 /\ i[2] = TrajLen)
                THEN [x |-> R(0), y |-> R(0), theta |-> R(0), v_x |-> R(0), v_y |-> R(0)]
                ELSE [x |-> R(5 * i[2]), y |-> R(10 * i[1]), theta |-> R(0),
                      v_x |-> R(5), v_y |-> R(0)]]],
         agents_interested |->
            [b \in Batch |-> [a \in Agents |-> IF b = cell[2] /\ a = NumAgents THEN 0 ELSE 1]],
         gt_actions |-> gt,
         gt_actions_valid |->
            [b \in Batch |-> [i \in Agents \X ActSteps |->
                CASE mask = "all" -> TRUE [] mask = "first" -> i[1] = 1 [] OTHER -> FALSE]],
         randint |-> [b \in Batch |-> IF b = cell[2] THEN (t0 + 1) % NumSteps ELSE t0],
         randn |-> [g \in Group |-> [b \in Batch |->
                      [s \in Slots |-> R(IF <<g, b>> = cell THEN nz ELSE 0)]]],
         denoiser |-> [g \in Group |-> [b \in Batch |-> Shift(gtn[b], at(g, b).cur)]],
         reference_model |-> [g \in Group |-> [b \in Batch |-> Shift(gtn[b], at(g, b).old)]],
         roll_out |-> [g \in Group |-> [b \in Batch |->
                         TrajPattern(IF <<g, b>> = cell /\ bad THEN 2 ELSE 1)]]]

\* the distinguished cell is an off-diagonal corner of the [G, B] group
Cells == {<<1, BatchSize>>, <<GroupSize, 1>>}

InitLoss ==
    \E c \in LossCfgs, cell \in Cells, mask \in MaskPatterns,
       t0 \in {0, NumSteps - 1}, base \in BaseDevs, dev \in CellDevs, bad \in BOOLEAN :
        loss = [pc |-> "start", in |-> LossInput(c, cell, mask, t0, 1, base, dev, bad)]

(***************************************************************************)
(* Stage 1 (lines 312-329): ground truth                                   *)
(***************************************************************************)
PrepareGroundTruth ==
    /\ loss.pc = "start"
    /\ loss' = [pc |-> "prepared", in |-> loss.in,
                \* torch.ne(agents_future.sum(-1), 0)
                agents_future_valid |->
                    [b \in Batch |-> [i \in Agents \X (0..TrajLen) |->
                        LET st == loss.in.agents_future[b][i]
                        IN  RSum(<<st.x, st.y, st.theta, st.v_x, st.v_y>>) # R(0)]],
                gt_actions_normalized |->
                    [b \in Batch |-> normalize_actions(loss.in.cfg, loss.in.gt_actions[b])]]
    /\ UNCHANGED <<lifeVars, rw, sup, rt, fn>>

(***************************************************************************)
(* Stage 2 (lines 332-344): one timestep per batch element, G noisy copies *)
(***************************************************************************)
\* only the last agent keeps the drawn timestep
DiffusionStepsButLast(drawn) ==
    [b \in Batch |-> [a \in Agents |-> (drawn[b] + NumAgents - a) % NumSteps]]

DiffusionStepsPerAgent(drawn) ==
    [b \in Batch |-> [a \in Agents |-> (drawn[b] + a - 1) % NumSteps]]

\* torch.randint(0, num_steps, (B,)).unsqueeze(-1).repeat(1, A)
DiffusionSteps(drawn) == [b \in Batch |-> [a \in Agents |-> drawn[b]]]

NoiseCallRedrawn(g, x0, noise, steps) ==
    [x0 |-> x0, noise |-> noise[g],
     t |-> [b \in Batch |-> [a \in Agents |-> (steps[b][a] + g - 1) % NumSteps]]]

\* the arguments of the g-th add_noise call
NoiseCall(g, x0, noise, steps) == [x0 |-> x0, noise |-> noise[g], t |-> steps]

NoiseCandidates ==
    /\ loss.pc = "prepared"
    /\ LET G == loss.in.cfg.group_size
           diffusion_steps == DiffusionSteps(loss.in.randint)
           calls == [g \in 1..G |->
                       NoiseCall(g, loss.gt_actions_normalized, loss.in.randn, diffusion_steps)]
           noised_action_list ==
               [g \in 1..G |-> [b \in Batch |->
                   AddNoise(calls[g].x0[b], calls[g].noise[b], calls[g].t[b])]]
       IN  loss' = [pc |-> "noised", in |-> loss.in,
                    agents_future_valid |-> loss.agents_future_valid,
                    gt_actions_normalized |-> loss.gt_actions_normalized,
                    diffusion_steps |-> diffusion_steps,
                    add_noise_calls |-> calls,
                    noised_action_normalized |-> noised_action_list]
    /\ UNCHANGED <<lifeVars, rw, sup, rt, fn>>


(***************************************************************************)
(* Stage 3 (lines 347-369): forward_denoiser on every candidate            *)
(***************************************************************************)
\* line 215: the arguments of self.denoiser(...)
DenoiserCall(encoder_outputs, noised_actions, noised_actions_normalized, diffusion_step, agents_future) ==
    [encoder_outputs |-> encoder_outputs, noisy_actions |-> noised_actions,
     diffusion_step |-> diffusion_step, agents_future |-> agents_future]

ReferenceCallNormalized(encoder_outputs, noised_actions, noised_actions_normalized, diffusion_step, agents_future) ==
    [encoder_outputs |-> encoder_outputs, noisy_actions |-> noised_actions_normalized,
     diffusion_step |-> diffusion_step, agents_future |-> agents_future]

\* line 216: the arguments of self.reference_model(...)
ReferenceCall(encoder_outputs, noised_actions, noised_actions_normalized, diffusion_step, agents_future) ==
    [encoder_outputs |-> encoder_outputs, noisy_actions |-> noised_actions,
     diffusion_step |-> diffusion_step, agents_future |-> agents_future]

\* the arguments of roll_out(current_states, actions, action_len, global_frame=True)
RollOutCall(encoder_outputs, actions) ==
    [current_states |-> encoder_outputs.agents, actions |-> actions, global_frame |-> TRUE]

\* forward_denoiser(encoder_outputs, noised_actions_normalized, diffusion_step,
\* agents_future) for candidate g; `net` holds what the two networks and
\* roll_out return on this call
forward_denoiser(c, encoder_outputs, noised_actions_normalized, diffusion_step, agents_future, net) ==
    LET noised_actions == [b \in Batch |-> unnormalize_actions(c, noised_actions_normalized[b])]
        denoiser_output == net.denoiser
        denoiser_output_old == net.reference_model
        denoised_actions_normalized ==
            [b \in Batch |-> QX0(denoiser_output[b], diffusion_step[b],
                                 noised_actions_normalized[b], c.prediction_type)]
        denoised_actions_normalized_old ==
            [b \in Batch |-> QX0(denoiser_output_old[b], diffusion_step[b],
                                 noised_actions_normalized[b], c.prediction_type)]
        denoised_actions ==
            [b \in Batch |-> unnormalize_actions(c, denoised_actions_normalized[b])]
        denoised_actions_old ==
            [b \in Batch |-> unnormalize_actions(c, denoised_actions_normalized_old[b])]
    IN  [denoiser_call |->
            DenoiserCall(encoder_outputs, noised_actions, noised_actions_normalized,
                         diffusion_step, agents_future),
         reference_call |->
            ReferenceCall(encoder_outputs, noised_actions, noised_actions_normalized,
                          diffusion_step, agents_future),
         denoiser_output |-> denoiser_output,
         denoised_actions_normalized |-> denoised_actions_normalized,
         denoised_actions |-> denoised_actions,
         roll_out_call |-> RollOutCall(encoder_outputs, denoised_actions),
         denoised_trajs |-> net.roll_out,
         denoiser_output_old |-> denoiser_output_old,
         denoised_actions_normalized_old |-> denoised_actions_normalized_old,
         denoised_actions_old |-> denoised_actions_old,
         roll_out_call_old |-> RollOutCall(encoder_outputs, denoised_actions_old)]

DenoiseCandidates ==
    /\ loss.pc = "noised"
    /\ LET G == loss.in.cfg.group_size
           \* lines 347-349: .unsqueeze(0).repeat(G, ...)
           diffusion_steps_g == [g \in 1..G |-> loss.diffusion_steps]
           agents_future_41_g == [g \in 1..G |-> loss.in.agents_future_41]
           encoder_outputs_g == [g \in 1..G |-> loss.in.encoder_outputs]
           denoise_outputs_list ==
               [g \in 1..G |->
                   forward_denoiser(loss.in.cfg, encoder_outputs_g[g],
                                    loss.noised_action_normalized[g],
                                    diffusion_steps_g[g], agents_future_41_g[g],
                                    [denoiser |-> loss.in.denoiser[g],
                                     reference_model |-> loss.in.reference_model[g],
                                     roll_out |-> loss.in.roll_out[g]])]
       IN  loss' = [pc |-> "denoised", in |-> loss.in,
                    agents_future_valid |-> loss.agents_future_valid,
                    gt_actions_normalized |-> loss.gt_actions_normalized,
                    diffusion_steps |-> loss.diffusion_steps,
                    add_noise_calls |-> loss.add_noise_calls,
                    noised_action_normalized |-> loss.noised_action_normalized,
                    denoise_outputs |-> denoise_outputs_list]
    /\ UNCHANGED <<lifeVars, rw, sup, rt, fn>>

(***************************************************************************)
(* Stage 4 (lines 371-413): rewards, ratios, advantages, GRPO loss         *)
(***************************************************************************)
\* a positive real is carried by its natural logarithm: Exp(q) is e^q
Exp(q) == [ln |-> q]
Log(r) == r.ln
One == Exp(R(0))

\* the clamp bounds 1e-8 and 10, by their logarithms to three decimals
ClampMin == Exp(<<-18421, 1000>>)
ClampMax == Exp(<<2303, 1000>>)

NoClamp(r, min, max) == r

\* torch.clamp(r, min, max)
Clamp(r, min, max) ==
    IF RLess(Log(r), Log(min)) THEN min
    ELSE IF RLess(Log(max), Log(r)) THEN max
    ELSE r

\* F.mse_loss(pred, target, reduction='none') * valid.unsqueeze(-1), then
\* .mean(dim=(1, 2, 3)), on one batch element
MaskedSquaredErrorMean(pred, target, valid) ==
    LET idx == [i \in 1..(NumAgents * NumActions * 2) |->
                  <<((i - 1) \div (NumActions * 2)) + 1,
                    (((i - 1) \div 2) % NumActions) + 1,
                    IF (i - 1) % 2 = 0 THEN "accel" ELSE "yaw">>]
        diff == [s \in Slots |->
                   RMul(RSq(RSub(pred[s], target[s])),
                        IF valid[<<s[1], s[2]>>] THEN R(1) ELSE R(0))]
    IN  RDiv(RSum(Flat(diff, idx)), R(Len(idx)))

\* the exponential of the reference error alone
RatiosOfReference(ref_diff, action_differences) ==
    Like(ref_diff, [i \in DOMAIN ref_diff.data |-> Exp(ref_diff.data[i])])

RatiosSwapped(ref_diff, action_differences) ==
    Like(ref_diff, [i \in DOMAIN ref_diff.data |->
                      Exp(RSub(action_differences.data[i], ref_diff.data[i]))])

\* ratios = torch.exp(ref_diff - action_differences)
Ratios(ref_diff, action_differences) ==
    Like(ref_diff, [i \in DOMAIN ref_diff.data |->
                      Exp(RSub(ref_diff.data[i], action_differences.data[i]))])

\* the record r with the fields of new added
With(r, new) == new @@ r

\* lines 371-387: the reward and the two action errors of every candidate
ScoreCandidates ==
    /\ loss.pc = "denoised"
    /\ LET G == loss.in.cfg.group_size
           B == BatchSize
           outs == loss.denoise_outputs
           denoised_trajs == [g \in 1..G |-> outs[g].denoised_trajs]
           denoised_actions == [g \in 1..G |-> outs[g].denoised_actions]
           denoised_actions_old == [g \in 1..G |-> outs[g].denoised_actions_old]
       IN  loss' = With(loss,
                [pc |-> "compared",
                 rewards_GB |->
                    compute_grpo_trajectory_reward(denoised_trajs, denoised_actions,
                                                   R(5), R(2)),
                 action_differences |->
                    Stack([g \in 1..G |-> [b \in Batch |->
                             MaskedSquaredErrorMean(denoised_actions[g][b],
                                                    loss.gt_actions_normalized[b],
                                                    loss.in.gt_actions_valid[b])]], G, B),
                 action_differences_old |->
                    Stack([g \in 1..G |-> [b \in Batch |->
                             MaskedSquaredErrorMean(denoised_actions_old[g][b],
                                                    loss.gt_actions_normalized[b],
                                                    loss.in.gt_actions_valid[b])]], G, B)])
    /\ UNCHANGED <<lifeVars, rw, sup, rt, fn>>

\* lines 389-396: the ratios, then rewards and ratios as [B, G]
ImportanceRatios ==
    /\ loss.pc = "compared"
    /\ LET G == loss.in.cfg.group_size
           B == BatchSize
           ref_diff == loss.action_differences_old
           ratios_GB == Ratios(ref_diff, loss.action_differences)
       IN  loss' = With(loss,
                [pc |-> "ratioed",
                 ratios_GB |-> ratios_GB,
                 rewards |-> View(Permute10(loss.rewards_GB), B, G),
                 ratios |-> View(Permute10(ratios_GB), B, G)])
    /\ UNCHANGED <<lifeVars, rw, sup, rt, fn>>

\* lines 398-400: the group-relative advantages and the clamped log-ratios
Advantages ==
    /\ loss.pc = "ratioed"
    /\ LET rewards == loss.rewards
           ratios == loss.ratios
           group_mean == MeanDim1(rewards)
       IN  loss' = With(loss,
                [pc |-> "advantaged",
                 advantages |->
                    [shape |-> rewards.shape,
                     data |-> Storage([i \in DOMAIN rewards.data |->
                                  RSub(rewards.data[i],
                                       group_mean[((i - 1) \div rewards.shape[2]) + 1])],
                                      Len(rewards.data))],
                 log_ratios |->
                    [shape |-> ratios.shape,
                     data |-> Storage([i \in DOMAIN ratios.data |->
                                  Log(Clamp(ratios.data[i], ClampMin, ClampMax))],
                                      Len(ratios.data))]])
    /\ UNCHANGED <<lifeVars, rw, sup, rt, fn>>

\* lines 402-407: policy loss, KL penalty, total loss
GRPOLoss ==
    /\ loss.pc = "advantaged"
    /\ LET policy_loss ==
               RNeg(MeanAll(Like(loss.advantages,
                                 [i \in DOMAIN loss.advantages.data |->
                                    RMul(loss.advantages.data[i], loss.log_ratios.data[i])])))
           \* kl_div = (ratios - 1 - log_ratios).mean(): e^q is irrational, so
           \* the summands are kept as terms
           kl_div ==
               [mean_of |-> Like(loss.ratios,
                                 [i \in DOMAIN loss.ratios.data |->
                                    [ratio |-> loss.ratios.data[i], minus |-> R(1),
                                     minus_log |-> loss.log_ratios.data[i]]])]
           kl_penalty == [beta |-> loss.in.cfg.beta, times |-> kl_div]
       IN  loss' = With(loss,
                [pc |-> "scored",
                 policy_loss |-> policy_loss,
                 kl_div |-> kl_div,
                 kl_penalty |-> kl_penalty,
                 total_loss |-> [policy_loss |-> policy_loss, plus |-> kl_penalty]])
    /\ UNCHANGED <<lifeVars, rw, sup, rt, fn>>

(***************************************************************************)
(* compute_grpo_trajectory_reward on two inputs that differ in one slice   *)
(* (g, b): the trajectories and, when given, the actions of that slice.    *)
(***************************************************************************)
ActionPattern(d) == [s \in Slots |-> R(IF s[3] = "accel" THEN d ELSE d + 1)]

RewardInput(k0, a0, with_actions) ==
    [trajectories |-> [g \in Group |-> [b \in Batch |-> TrajPattern(((k0 + g + b) % 3) + 1)]],
     actions |-> IF with_actions
                 THEN [g \in Group |-> [b \in Batch |-> ActionPattern((a0 + g) % 2)]]
                 ELSE NoActions]

\* the input with slice `cell` replaced
Replaced(in, cell, k, a) ==
    [trajectories |-> [in.trajectories EXCEPT ![cell[1]][cell[2]] = TrajPattern(k)],
     actions |-> IF in.actions = NoActions THEN NoActions
                 ELSE [in.actions EXCEPT ![cell[1]][cell[2]] = ActionPattern(a)]]

InitReward ==
    \E k0 \in 1..3, a0 \in 0..1, with_actions \in BOOLEAN,
       cell \in Group \X Batch, k \in 1..3, a \in 0..2 :
        rw = [pc |-> "start",
              first |-> RewardInput(k0, a0, with_actions),
              second |-> Replaced(RewardInput(k0, a0, with_actions), cell, k, a)]

RewardBoth ==
    /\ rw.pc = "start"
    /\ rw' = With(rw,
            [pc |-> "done",
             reward_first |->
                compute_grpo_trajectory_reward(rw.first.trajectories, rw.first.actions,
                                               R(5), R(2)),
             reward_second |->
                compute_grpo_trajectory_reward(rw.second.trajectories, rw.second.actions,
                                               R(5), R(2))])
    /\ UNCHANGED <<lifeVars, loss, sup, rt, fn>>

(***************************************************************************)
(* The supervised engine, DPR.forward_and_get_loss (src/DPR/model/DPR.py). *)
(* Tensors are as in the GRPO branch; a future state is a record           *)
(* [x, y, theta, v_x, v_y], agents_future[b][<<a, t>>] has t in 0..TrajLen *)
(* (t = 0 is the current state), a trajectory has t in 1..TrajLen.         *)
(***************************************************************************)
\* ---- float results: a rational, or nan <<0, 0>>, or +-inf <<+-1, 0>> ----
NaN == <<0, 0>>
IsFinite(a) == a[2] # 0
Sign(n) == IF n < 0 THEN -1 ELSE IF n > 0 THEN 1 ELSE 0

FAdd(a, b) ==
    IF IsFinite(a) /\ IsFinite(b) THEN RAdd(a, b)
    ELSE IF a = NaN \/ b = NaN THEN NaN
    ELSE IF IsFinite(b) THEN a
    ELSE IF IsFinite(a) THEN b
    ELSE IF a = b THEN a ELSE NaN

FMul(a, b) ==
    IF IsFinite(a) /\ IsFinite(b) THEN RMul(a, b)
    ELSE IF a = NaN \/ b = NaN \/ a[1] = 0 \/ b[1] = 0 THEN NaN
    ELSE <<Sign(a[1]) * Sign(b[1]), 0>>

\* x / 0 is +-inf, 0 / 0 is nan
FDiv(a, b) ==
    IF IsFinite(a) /\ IsFinite(b) /\ b[1] # 0 THEN RDiv(a, b)
    ELSE IF a = NaN \/ b = NaN THEN NaN
    ELSE IF IsFinite(a) /\ IsFinite(b) THEN <<Sign(a[1]), 0>>
    ELSE IF IsFinite(a) THEN R(0)
    ELSE IF IsFinite(b) THEN <<a[1] * (IF b[1] < 0 THEN -1 ELSE 1), 0>>
    ELSE NaN

RECURSIVE FSum(_)
FSum(s) == IF s = <<>> THEN R(0) ELSE FAdd(Head(s), FSum(Tail(s)))

RAbs(a) == <<Abs(a[1]), a[2]>>

\* torch.nn.functional.smooth_l1_loss(x, y, reduction='none'), beta = 1
smooth_l1_loss(x, y) ==
    IF RLess(RAbs(RSub(x, y)), R(1))
    THEN RMul(<<1, 2>>, RSq(RSub(x, y)))
    ELSE RSub(RAbs(RSub(x, y)), <<1, 2>>)

\* pi to six decimals
Pi == <<355, 113>>

\* torch.atan2(torch.sin(e), torch.cos(e)): e less the multiple of 2 pi that
\* brings it into [-pi, pi]
WrapAngle(e) ==
    IF RLeq(RAbs(e), Pi) THEN e
    ELSE LET turns == RDiv(RAdd(e, Pi), RMul(R(2), Pi))
         IN  RSub(e, RMul(R(turns[1] \div turns[2]), RMul(R(2), Pi)))

\* the absolute difference of two headings, not wrapped
YawLossUnwrapped(theta, theta_gt) == RAbs(RSub(theta, theta_gt))

\* yaw_loss of one (agent, timestep): |atan2(sin(yaw_error), cos(yaw_error))|
YawLoss(theta, theta_gt) == RAbs(WrapAngle(RSub(theta, theta_gt)))

\* index lists, row-major
AgentSteps == Grid(NumAgents, TrajLen)
AgentActs == Grid(NumAgents, NumActions)
SlotList ==
    [i \in 1..(NumAgents * NumActions * 2) |->
        <<((i - 1) \div (NumActions * 2)) + 1,
          (((i - 1) \div 2) % NumActions) + 1,
          IF (i - 1) % 2 = 0 THEN "accel" ELSE "yaw">>]
BatchList == [b \in 1..BatchSize |-> b]

\* mask.sum() of a [B, ...] boolean tensor with index list idx
MaskSum(mask, idx) ==
    Cardinality({<<b, i>> \in Batch \X (1..Len(idx)) : mask[b][idx[i]]})

\* (values * mask).sum()
MaskedSum(values, mask, idx) ==
    FSum([b \in Batch |->
            FSum(Storage([i \in 1..Len(idx) |->
                            FMul(values[b][idx[i]],
                                 IF mask[b][idx[i]] THEN R(1) ELSE R(0))], Len(idx)))])

\* a [B, ...] tensor written out to its storage
StoredBatch(f) == Storage([b \in Batch |-> Stored(f[b])], BatchSize)

\* valid[..., 1:] * (agents_interested[..., None] > 0) on [B, A, T]
InterestMask(valid, agents_interested) ==
    [b \in Batch |-> [i \in DOMAIN valid[b] |-> valid[b][i] /\ agents_interested[b][i[1]] > 0]]

\* denoise_loss(denoised_trajs, agents_future, agents_future_valid, agents_interested)
denoise_loss(denoised_trajs, agents_future, agents_future_valid, agents_interested) ==
    LET future_mask == InterestMask(agents_future_valid, agents_interested)
        state_loss ==
            [b \in Batch |-> [i \in Agents \X TrajSteps |->
                RAdd(smooth_l1_loss(denoised_trajs[b][i].x, agents_future[b][i].x),
                     smooth_l1_loss(denoised_trajs[b][i].y, agents_future[b][i].y))]]
        yaw_loss ==
            [b \in Batch |-> [i \in Agents \X TrajSteps |->
                YawLoss(denoised_trajs[b][i].theta, agents_future[b][i].theta)]]
    IN  [state_loss_mean |->
            FDiv(MaskedSum(state_loss, future_mask, AgentSteps),
                 R(MaskSum(future_mask, AgentSteps))),
         yaw_loss_mean |->
            FDiv(MaskedSum(yaw_loss, future_mask, AgentSteps),
                 R(MaskSum(future_mask, AgentSteps)))]

\* action_loss(actions, actions_gt, actions_valid, agents_interested)
action_loss(actions, actions_gt, actions_valid, agents_interested) ==
    LET action_mask == InterestMask(actions_valid, agents_interested)
        loss_sum ==
            [b \in Batch |-> [i \in Agents \X ActSteps |->
                RAdd(smooth_l1_loss(actions[b][<<i[1], i[2], "accel">>],
                                    actions_gt[b][<<i[1], i[2], "accel">>]),
                     smooth_l1_loss(actions[b][<<i[1], i[2], "yaw">>],
                                    actions_gt[b][<<i[1], i[2], "yaw">>]))]]
    IN  FDiv(MaskedSum(loss_sum, action_mask, AgentActs), R(MaskSum(action_mask, AgentActs)))

\* torch.nn.functional.mse_loss(input, target, reduction='mean') on [B, A, T, D]
mse_loss(input, target) ==
    FDiv(FSum([b \in Batch |->
                 FSum(Storage([i \in 1..Len(SlotList) |->
                        FMul(FAdd(input[b][SlotList[i]], RNeg(target[b][SlotList[i]])),
                             FAdd(input[b][SlotList[i]], RNeg(target[b][SlotList[i]])))],
                      Len(SlotList)))]),
         R(BatchSize * Len(SlotList)))

\* noise_scheduler.get_noise(x_0, x_t, timesteps, gt_noise): the noise implied
\* by the x0 estimate and its mean squared error against the injected noise
GetNoise(x_0, x_t, timesteps, gt_noise) ==
    LET implied ==
            [b \in Batch |-> [s \in Slots |->
                FDiv(RSub(x_t[b][s], RMul(SqrtAlphaBar(timesteps[b][s[1]]), x_0[b][s])),
                     SqrtOneMinusAlphaBar(timesteps[b][s[1]]))]]
    IN  [noise |-> implied, diffusion_loss |-> mse_loss(implied, gt_noise)]

\* the mean of the selected elements, pred[mask].mean(): nan when none is selected
SelectedMean(values, mask, idx) ==
    FDiv(MaskedSum(values, mask, idx), R(MaskSum(mask, idx)))

\* lines 685-686: ADE over every selected step, FDE over the selected last steps
MetricsDenoiseOf(denoise_mse, gt_mask) ==
    [denoise_ADE |-> SelectedMean(denoise_mse, gt_mask, AgentSteps),
     denoise_FDE |-> SelectedMean(denoise_mse, gt_mask,
                                  [a \in 1..NumAgents |-> <<a, TrajLen>>])]

\* calculate_metrics_denoise(denoised_trajs, agents_future, agents_future_valid,
\* agents_interested, top_k) with top_k >= A
calculate_metrics_denoise(denoised_trajs, agents_future, agents_future_valid, agents_interested) ==
    MetricsDenoiseOf(
        StoredBatch([b \in Batch |-> [i \in Agents \X TrajSteps |->
            RSqrt(RAdd(RSq(RSub(denoised_trajs[b][i].x, agents_future[b][i].x)),
                       RSq(RSub(denoised_trajs[b][i].y, agents_future[b][i].y))))]]),
        InterestMask(agents_future_valid, agents_interested))

\* ---- goal_loss ----
Queries == 1..NumQueries

\* cos and sin of a heading: 0, or the angle of the 3-4-5 triangle
HeadingCos(theta) == IF theta = R(0) THEN R(1) ELSE <<3, 5>>
HeadingSin(theta) == IF theta = R(0) THEN R(0) ELSE <<4, 5>>

\* batch_transform_trajs_to_global_frame(anchors, current_states): every
\* anchor rotated by the agent's heading and translated to its position
batch_transform_trajs_to_global_frame(anchors, current_states) ==
    [b \in Batch |-> [i \in Agents \X Queries |->
        LET cur == current_states[b][i[1]]
        IN  [x |-> RAdd(RSub(RMul(HeadingCos(cur.theta), anchors[b][i].x),
                             RMul(HeadingSin(cur.theta), anchors[b][i].y)), cur.x),
             y |-> RAdd(RAdd(RMul(HeadingSin(cur.theta), anchors[b][i].x),
                             RMul(HeadingCos(cur.theta), anchors[b][i].y)), cur.y)]]]

\* torch.norm(p - q, dim=-1) of two points
Norm2(p, q) == RSqrt(RAdd(RSq(RSub(p.x, q.x)), RSq(RSub(p.y, q.y))))

\* torch.argmin(s, dim=-1): the first index of the minimal value
ArgMin(s) ==
    CHOOSE i \in 1..Len(s) :
        /\ \A j \in 1..(i - 1) : RLess(s[i], s[j])
        /\ \A j \in (i + 1)..Len(s) : RLeq(s[i], s[j])

\* F.cross_entropy(scores, idx, reduction='none') of one agent: -log softmax,
\* kept as a term
cross_entropy(logits, label) == [cross_entropy |-> logits, label |-> label]

WhereSwapped(cond, a, b) == IF cond THEN b ELSE a

\* torch.where(cond, a, b)
Where(cond, a, b) == IF cond THEN a ELSE b

\* lines 626-634 of goal_loss: the index of every agent, from the distance of
\* every anchor to the endpoint and the masked mean displacement of every
\* candidate
GoalIndex(agents_future_valid, anchors_global, anchor_dist, dist_mean) ==
    [anchors_global |-> anchors_global,
     idx_anchor |->
        [b \in Batch |-> [a \in Agents |->
            ArgMin([q \in Queries |-> anchor_dist[b][<<a, q>>]])]],
     dist_mean |-> dist_mean,
     idx |->
        [b \in Batch |-> [a \in Agents |->
            Where(agents_future_valid[b][<<a, TrajLen>>],
                  ArgMin([q \in Queries |-> anchor_dist[b][<<a, q>>]]),
                  ArgMin([q \in Queries |-> dist_mean[b][<<a, q>>]]))]]]

GoalDistances(trajs, agents_future, agents_future_valid, anchors_global, traj_mask) ==
    GoalIndex(agents_future_valid, anchors_global,
        StoredBatch([b \in Batch |-> [i \in Agents \X Queries |->
            Norm2(anchors_global[b][i], agents_future[b][<<i[1], TrajLen>>])]]),
        \* dist.mean(-1): [B*A, Q]
        StoredBatch([b \in Batch |-> [i \in Agents \X Queries |->
            RDiv(RSum([t \in TrajSteps |->
                         RMul(Norm2(trajs[b][<<i[1], i[2], t>>], agents_future[b][<<i[1], t>>]),
                              IF traj_mask[b][<<i[1], t>>] THEN R(1) ELSE R(0))]),
                 R(TrajLen))]]))

\* lines 611-634 of goal_loss: the selected index of every agent
GoalSelect(trajs, agents_future, agents_future_valid, anchors, agents_interested) ==
    GoalDistances(trajs, agents_future, agents_future_valid,
        StoredBatch(batch_transform_trajs_to_global_frame(anchors,
            [b \in Batch |-> [a \in Agents |-> agents_future[b][<<a, 0>>]]])),
        InterestMask(agents_future_valid, agents_interested))

\* lines 635-650 of goal_loss: the two losses of the selected index
GoalLossOf(trajs, scores, agents_future, agents_future_valid, agents_interested, idx) ==
    LET traj_mask == InterestMask(agents_future_valid, agents_interested)
        trajs_select ==
            [b \in Batch |-> [i \in Agents \X TrajSteps |-> trajs[b][<<i[1], idx[b][i[1]], i[2]>>]]]
        traj_loss ==
            [b \in Batch |-> [i \in Agents \X TrajSteps |->
                RAdd(RAdd(smooth_l1_loss(trajs_select[b][i].x, agents_future[b][i].x),
                          smooth_l1_loss(trajs_select[b][i].y, agents_future[b][i].y)),
                     smooth_l1_loss(trajs_select[b][i].theta, agents_future[b][i].theta))]]
        score_loss ==
            [b \in Batch |-> [a \in Agents |->
                [term |-> cross_entropy([q \in Queries |-> scores[b][<<a, q>>]], idx[b][a]),
                 times |-> IF agents_interested[b][a] > 0 THEN 1 ELSE 0]]]
        interested == Cardinality({i \in Batch \X Agents : agents_interested[i[1]][i[2]] > 0})
    IN  [trajs_select |-> trajs_select,
         traj_loss_mean |->
            FDiv(MaskedSum(traj_loss, traj_mask, AgentSteps), R(MaskSum(traj_mask, AgentSteps))),
         score_loss |-> score_loss,
         \* score_loss.sum() / (agents_interested > 0).sum(), kept as a term
         score_loss_mean |-> [sum_of |-> score_loss, over |-> interested]]

\* lines 735-736: the errors of the best candidate over the mask sums
MetricsPredictOf(best_goal_mse, gt_mask) ==
    [pred_ADE |-> FDiv(FSum([b \in Batch |-> RSum(Flat(best_goal_mse[b], AgentSteps))]),
                       R(MaskSum(gt_mask, AgentSteps))),
     pred_FDE |-> FDiv(FSum([b \in Batch |->
                               RSum(Flat(best_goal_mse[b],
                                         [a \in 1..NumAgents |-> <<a, TrajLen>>]))]),
                       R(MaskSum(gt_mask, [a \in 1..NumAgents |-> <<a, TrajLen>>])))]

\* lines 727-732: the candidate of every agent with the least summed error
MetricsPredictBest(goal_mse, gt_mask) ==
    MetricsPredictOf(
        StoredBatch([b \in Batch |-> [i \in Agents \X TrajSteps |->
            goal_mse[b][<<i[1],
                          ArgMin([q \in Queries |->
                                    RSum([t \in TrajSteps |-> goal_mse[b][<<i[1], q, t>>]])]),
                          i[2]>>]]]),
        gt_mask)

\* calculate_metrics_predict(goal_trajs, agents_future, agents_future_valid,
\* agents_interested, top_k) with top_k >= A
calculate_metrics_predict(goal_trajs, agents_future, agents_future_valid, agents_interested) ==
    MetricsPredictBest(
        StoredBatch([b \in Batch |-> [i \in Agents \X Queries \X TrajSteps |->
            RMul(Norm2(goal_trajs[b][i], agents_future[b][<<i[1], i[3]>>]),
                 IF agents_future_valid[b][<<i[1], i[3]>>] /\ agents_interested[b][i[1]] > 0
                 THEN R(1) ELSE R(0))]]),
        InterestMask(agents_future_valid, agents_interested))

(***************************************************************************)
(* DPR_GRPO.calculate_metrics_denoise (GRPO.py lines 507-544), on a stack  *)
(* [G, B, A, T, 5] of denoised trajectories of A agents.                   *)
(***************************************************************************)
Min(a, b) == IF a <= b THEN a ELSE b

\* denoised_trajs.mean(dim=0)[..., :2]
GroupMean(denoised_trajs, G, A) ==
    [b \in Batch |-> [i \in (1..A) \X TrajSteps |->
        [x |-> RDiv(RSum([g \in 1..G |-> denoised_trajs[g][b][i].x]), R(G)),
         y |-> RDiv(RSum([g \in 1..G |-> denoised_trajs[g][b][i].y]), R(G))]]]

PerCandidateMean(values, G) == FDiv(FSum([g \in 1..G |-> values[g]]), R(G))

\* the [:, :top_k] slice of a per-agent list of indices
LastSteps(K) == [a \in 1..K |-> <<a, TrajLen>>]

\* lines 541-542 on the distances and the mask of the first K agents
MetricsDenoiseTopK(denoise_mse, gt_mask, K) ==
    [denoise_ADE |-> SelectedMean(denoise_mse, gt_mask, Grid(K, TrajLen)),
     denoise_FDE |-> SelectedMean(denoise_mse, gt_mask, LastSteps(K))]

\* lines 530-542 on the averaged trajectory
MetricsDenoiseOfMean(avg, agents_future, agents_future_valid, agents_interested, K) ==
    MetricsDenoiseTopK(
        StoredBatch([b \in Batch |-> [i \in (1..K) \X TrajSteps |->
            Norm2(avg[b][i], agents_future[b][i])]]),
        StoredBatch([b \in Batch |-> [i \in (1..K) \X TrajSteps |->
            agents_future_valid[b][i] /\ agents_interested[b][i[1]] > 0]]),
        K)

MetricsPerCandidate(denoised_trajs, agents_future, agents_future_valid, agents_interested, top_k, G, A) ==
    [denoise_ADE |->
        PerCandidateMean([g \in 1..G |->
            MetricsDenoiseOfMean(denoised_trajs[g], agents_future, agents_future_valid,
                                 agents_interested, Min(top_k, A)).denoise_ADE], G),
     denoise_FDE |->
        PerCandidateMean([g \in 1..G |->
            MetricsDenoiseOfMean(denoised_trajs[g], agents_future, agents_future_valid,
                                 agents_interested, Min(top_k, A)).denoise_FDE], G)]

\* calculate_metrics_denoise(denoised_trajs, agents_future, agents_future_valid,
\* agents_interested, top_k) on G candidates of A agents; a slice [:top_k]
\* of A < top_k agents is all of them
calculate_metrics_denoise_grpo(denoised_trajs, agents_future, agents_future_valid, agents_interested, top_k, G, A) ==
    MetricsDenoiseOfMean(StoredBatch(GroupMean(denoised_trajs, G, A)), agents_future,
                         agents_future_valid, agents_interested, Min(top_k, A))

(***************************************************************************)
(* Stage 5 of the GRPO forward_and_get_loss (lines 409-465): the log, the  *)
(* ADE / FDE of the stacked candidates, and the returned loss              *)
(***************************************************************************)
ReturnLoss ==
    /\ loss.pc = "scored"
    /\ loss' = With(loss,
            [pc |-> "done",
             log_dict |->
                With([GRPO_loss |-> loss.total_loss,
                      policy_loss |-> loss.policy_loss,
                      kl_penalty |-> loss.kl_penalty],
                     \* line 416: calculate_metrics_denoise(denoised_trajs, ..., 8)
                     calculate_metrics_denoise_grpo(
                         [g \in 1..loss.in.cfg.group_size |->
                             loss.denoise_outputs[g].denoised_trajs],
                         loss.in.agents_future, loss.agents_future_valid,
                         loss.in.agents_interested, TopK,
                         loss.in.cfg.group_size, NumAgents))])
    /\ UNCHANGED <<lifeVars, rw, sup, rt, fn>>

(***************************************************************************)
(* Inputs of one supervised forward_and_get_loss call: the configuration,  *)
(* the batch, the random draws, and what the networks, roll_out,           *)
(* inverse_kinematics and the scheduler's posterior sample return.         *)
(***************************************************************************)
PredictionTypes == {"sample", "mean", "error", "velocity"}

\* train_predictor is self._train_predictor, which __init__ forces to False
\* without a predictor (lines 83-91)
SupCfgs ==
    {[train_denoiser |-> td, train_predictor |-> tp, replay_buffer |-> rb,
      prediction_type |-> pt, action_mean |-> n.mean, action_std |-> n.std] :
        td \in BOOLEAN, tp \in BOOLEAN, rb \in BOOLEAN,
        pt \in PredictionTypes, n \in Normalizations}

FuturePatterns == {"all", "end_invalid", "none"}
InterestPatterns == {"all", "first", "none"}
GoalPatterns == {[near |-> 1, best |-> 1], [near |-> 2, best |-> 1],
                 [near |-> 1, best |-> 2], [near |-> 0, best |-> 0]}
ZeroState == [x |-> R(0), y |-> R(0), theta |-> R(0), v_x |-> R(0), v_y |-> R(0)]

\* the state of agent a at step t of a fully valid future
FutureBase(a, t) == [x |-> R(t), y |-> R(a), theta |-> R(a - 1), v_x |-> R(1), v_y |-> R(0)]

Displaced(s, dx, dy) == [s EXCEPT !.x = RAdd(s.x, R(dx)), !.y = RAdd(s.y, R(dy))]

SupInput(c, fp, ip, t0, dev, off, gp) ==
    LET gt == [b \in Batch |-> [s \in Slots |-> R(IF b = 1 THEN 1 ELSE 0)]]
        gtn == [b \in Batch |-> normalize_actions(c, gt[b])]
        future ==
            [b \in Batch |-> [i \in Agents \X (0..TrajLen) |->
                IF \/ fp = "none" /\ i[2] > 0
                   \/ fp = "end_invalid" /\ i[1] = 1 /\ i[2] = TrajLen
                THEN ZeroState ELSE FutureBase(i[1], i[2])]]
    IN  [cfg |-> c,
         encoder_outputs |-> [agents |-> "scene"],
         agents_future |-> future,
         agents_interested |->
            [b \in Batch |-> [a \in Agents |->
                CASE ip = "all" -> 1 [] ip = "first" -> (IF a = 1 THEN 1 ELSE 0) [] OTHER -> 0]],
         anchors |->
            [b \in Batch |-> [i \in Agents \X Queries |->
                [x |-> R(IF gp.near \in {0, i[2]} THEN TrajLen ELSE TrajLen + 3), y |-> R(0)]]],
         \* inverse_kinematics(agents_future, agents_future_valid, dt, action_len)
         gt_actions |-> gt,
         gt_actions_valid |->
            [b \in Batch |-> [i \in Agents \X ActSteps |->
                ~(fp = "none" \/ (fp = "end_invalid" /\ i[1] = 1 /\ i[2] = NumActions))]],
         randint |-> [b \in Batch |-> IF b = 1 THEN t0 ELSE NumSteps - 1],
         randn |-> [b \in Batch |-> [s \in Slots |-> R(IF b = 1 THEN 1 ELSE 0)]],
         \* self.denoiser on the extra pass and on the main pass
         denoiser_replay |-> [b \in Batch |-> Shift(gtn[b], 1)],
         denoiser |-> [b \in Batch |-> Shift(gtn[b], dev)],
         \* the posterior sample drawn by noise_scheduler.step
         step |-> [b \in Batch |-> Shift(gtn[b], 3)],
         roll_out_replay |-> [b \in Batch |-> [i \in Agents \X TrajSteps |-> FutureBase(i[1], i[2])]],
         roll_out |->
            [b \in Batch |-> [i \in Agents \X TrajSteps |->
                Displaced(FutureBase(i[1], i[2]), 3 * off, 4 * off)]],
         \* self.predictor and the roll_out of its goal actions
         goal_scores |-> [b \in Batch |-> [i \in Agents \X Queries |-> R(i[2])]],
         goal_trajs |->
            [b \in Batch |-> [i \in Agents \X Queries \X TrajSteps |->
                IF gp.best \in {0, i[2]} THEN FutureBase(i[1], i[3])
                ELSE Displaced(FutureBase(i[1], i[3]), 3, 4)]]]

\* a module that does not train the denoiser (the predictor) has a single
\* set of denoiser (predictor) inputs
InitSup ==
    \E c \in SupCfgs, fp \in FuturePatterns, ip \in InterestPatterns,
       t0 \in {0, 1}, off \in {0, 1}, dev \in {0, 2}, gp \in GoalPatterns :
        /\ dev = 2 * off
        /\ ~c.train_denoiser => ~c.replay_buffer /\ t0 = 0 /\ off = 0
        /\ ~c.train_predictor => gp = [near |-> 1, best |-> 1]
        /\ fp = "none" => ip = "all"
        /\ sup = [pc |-> "start", in |-> SupInput(c, fp, ip, t0, dev, off, gp)]

(***************************************************************************)
(* The stages of the supervised forward_and_get_loss.  sup.calls is the    *)
(* sequence of calls made so far to the policy and to the scheduler.       *)
(***************************************************************************)
\* the values q_x0 accepts; any other value is an invalid-configuration error
QX0Accepts(prediction_type) == prediction_type \in {"sample", "mean", "error"}

\* a loss: the int 0 total_loss starts as (tensor = FALSE), or a tensor whose
\* value is a float plus the cross-entropy terms it carries
IntZero == [tensor |-> FALSE, value |-> R(0), terms |-> <<>>]
Scalar(x) == [tensor |-> TRUE, value |-> x, terms |-> <<>>]
LossAdd(a, b) ==
    [tensor |-> a.tensor \/ b.tensor, value |-> FAdd(a.value, b.value),
     terms |-> a.terms \o b.terms]

\* coef * score_loss_mean; with no agent of interest every summand is masked
\* to 0 and the mean is 0 / 0
ScoreTimes(coef, score_loss_mean) ==
    IF score_loss_mean.over = 0 THEN Scalar(FMul(coef, FDiv(R(0), R(0))))
    ELSE [tensor |-> TRUE, value |-> R(0),
          terms |-> <<[coef |-> coef, term |-> score_loss_mean]>>]

\* torch.cat([agents_future[:, :, 0:1], agents_future[:, :, 1::2]], dim=2):
\* the current state and every second future state
Downsample(agents_future) ==
    [i \in {j \in DOMAIN agents_future : j[2] = 0 \/ j[2] % 2 = 1} |-> agents_future[i]]

\* lines 307-327
SupPrepare ==
    /\ sup.pc = "start"
    /\ sup' = With(sup,
            [pc |-> "prepared",
             \* torch.ne(agents_future.sum(-1), 0)
             agents_future_valid |->
                [b \in Batch |-> [i \in Agents \X (0..TrajLen) |->
                    LET st == sup.in.agents_future[b][i]
                    IN  RSum(<<st.x, st.y, st.theta, st.v_x, st.v_y>>) # R(0)]],
             gt_actions_normalized |->
                [b \in Batch |-> normalize_actions(buffers, sup.in.gt_actions[b])],
             agents_future_41 |->
                [b \in Batch |-> Downsample(sup.in.agents_future[b])],
             total_loss |-> IntZero,
             log_dict |-> [prefix |-> "train/"],
             calls |-> <<>>])
    /\ UNCHANGED <<lifeVars, loss, rw, rt, fn>>

\* line 330: the denoiser block is skipped
SupSkipDenoiser ==
    /\ sup.pc = "prepared"
    /\ ~sup.in.cfg.train_denoiser
    /\ sup' = With(sup, [pc |-> "denoise_done"])
    /\ UNCHANGED <<lifeVars, loss, rw, rt, fn>>

\* lines 331-345: timestep, noise, add_noise
SupNoise ==
    /\ sup.pc = "prepared"
    /\ sup.in.cfg.train_denoiser
    /\ LET diffusion_steps == DiffusionSteps(sup.in.randint)
           noise == sup.in.randn
           call == [op |-> "add_noise", x0 |-> sup.gt_actions_normalized,
                    noise |-> noise, t |-> diffusion_steps]
           added == [b \in Batch |-> AddNoise(call.x0[b], call.noise[b], call.t[b])]
       IN  sup' = With(sup,
                [pc |-> "noised",
                 diffusion_steps |-> diffusion_steps,
                 noise |-> noise,
                 add_noise_output |-> added,
                 noised_action_normalized |-> added,
                 calls |-> Append(sup.calls, call)])
    /\ UNCHANGED <<lifeVars, loss, rw, rt, fn>>

\* Decoder.forward: diffusion_time = diffusion_step[:, -1], the timestep the
\* network is conditioned on
DiffusionTime(diffusion_step) == [b \in Batch |-> diffusion_step[b][NumAgents]]

DenoiserCallNormalizedDPR(encoder_outputs, noised_actions, noised_actions_normalized, diffusion_step, agents_future, no_grad) ==
    [op |-> "denoiser", no_grad |-> no_grad, encoder_outputs |-> encoder_outputs,
     noisy_actions |-> noised_actions_normalized, diffusion_step |-> diffusion_step,
     diffusion_time |-> DiffusionTime(diffusion_step), agents_future |-> agents_future]

\* DPR.py line 209: the arguments of self.denoiser(...)
DenoiserCallDPR(encoder_outputs, noised_actions, noised_actions_normalized, diffusion_step, agents_future, no_grad) ==
    [op |-> "denoiser", no_grad |-> no_grad, encoder_outputs |-> encoder_outputs,
     noisy_actions |-> noised_actions, diffusion_step |-> diffusion_step,
     diffusion_time |-> DiffusionTime(diffusion_step), agents_future |-> agents_future]

\* DPR.forward_denoiser(encoder_outputs, noised_actions_normalized,
\* diffusion_step, agents_future); `net` holds what the denoiser and roll_out
\* return on this call, no_grad whether the call is under torch.no_grad()
DPR_forward_denoiser(c, bufs, encoder_outputs, noised_actions_normalized, diffusion_step, agents_future, net, no_grad) ==
    LET noised_actions ==
            [b \in Batch |-> unnormalize_actions(bufs, noised_actions_normalized[b])]
        policy == DenoiserCallDPR(encoder_outputs, noised_actions, noised_actions_normalized,
                                  diffusion_step, agents_future, no_grad)
        q_x0 == [op |-> "q_x0", model_output |-> net.denoiser, t |-> diffusion_step,
                 x_t |-> noised_actions_normalized, prediction_type |-> c.prediction_type]
        denoised_actions_normalized ==
            [b \in Batch |-> QX0(q_x0.model_output[b], q_x0.t[b], q_x0.x_t[b],
                                 q_x0.prediction_type)]
    IN  IF ~QX0Accepts(c.prediction_type)
        THEN [raised |-> TRUE, calls |-> <<policy, q_x0>>]
        ELSE [raised |-> FALSE, calls |-> <<policy, q_x0>>,
              denoiser_output |-> net.denoiser,
              denoised_actions_normalized |-> denoised_actions_normalized,
              denoised_actions |->
                 [b \in Batch |-> unnormalize_actions(bufs, denoised_actions_normalized[b])],
              denoised_trajs |-> net.roll_out]

\* the arguments of noise_scheduler.step(model_output, timesteps, sample, prediction_type)
StepCall(x_0, diffusion_steps, noised_action_normalized, prediction_type) ==
    [op |-> "step", model_output |-> x_0, timesteps |-> diffusion_steps,
     sample |-> noised_action_normalized, prediction_type |-> prediction_type]

ReplayKeepsNoised(noised_action_normalized, x_t_prev) == noised_action_normalized

\* line 361: noised_action_normalized = x_t_prev.detach()
ReplayRefresh(noised_action_normalized, x_t_prev) == x_t_prev

\* lines 347-361: the extra pass on the ground truth and the posterior sample
SupReplay ==
    /\ sup.pc = "noised"
    /\ sup.in.cfg.replay_buffer
    /\ LET denoise_outputs ==
               DPR_forward_denoiser(sup.in.cfg, buffers, sup.in.encoder_outputs,
                                    sup.gt_actions_normalized, sup.diffusion_steps,
                                    sup.agents_future_41,
                                    [denoiser |-> sup.in.denoiser_replay,
                                     roll_out |-> sup.in.roll_out_replay], TRUE)
       IN  IF denoise_outputs.raised
           THEN sup' = With(sup, [pc |-> "raised", error |-> "invalid prediction type",
                                  calls |-> sup.calls \o denoise_outputs.calls])
           ELSE sup' = With(sup,
                    [pc |-> "replayed",
                     x_0 |-> denoise_outputs.denoised_actions_normalized,
                     noised_action_normalized |->
                        ReplayRefresh(sup.noised_action_normalized, sup.in.step),
                     calls |-> (sup.calls \o denoise_outputs.calls)
                               \o <<StepCall(denoise_outputs.denoised_actions_normalized,
                                             sup.diffusion_steps,
                                             sup.noised_action_normalized,
                                             sup.in.cfg.prediction_type)>>])
    /\ UNCHANGED <<lifeVars, loss, rw, rt, fn>>

\* line 364: the main pass
SupDenoise ==
    /\ \/ sup.pc = "noised" /\ ~sup.in.cfg.replay_buffer
       \/ sup.pc = "replayed"
    /\ LET denoise_outputs ==
               DPR_forward_denoiser(sup.in.cfg, buffers, sup.in.encoder_outputs,
                                    sup.noised_action_normalized, sup.diffusion_steps,
                                    sup.agents_future_41,
                                    [denoiser |-> sup.in.denoiser,
                                     roll_out |-> sup.in.roll_out], FALSE)
       IN  IF denoise_outputs.raised
           THEN sup' = With(sup, [pc |-> "raised", error |-> "invalid prediction type",
                                  calls |-> sup.calls \o denoise_outputs.calls])
           ELSE sup' = With(sup,
                    [pc |-> "denoised",
                     denoise_outputs |-> denoise_outputs,
                     calls |-> sup.calls \o denoise_outputs.calls])
    /\ UNCHANGED <<lifeVars, loss, rw, rt, fn>>

SampleLossWithNoise(state_loss_mean, yaw_loss_mean, diffusion_loss) ==
    FAdd(FAdd(state_loss_mean, yaw_loss_mean), diffusion_loss)

\* line 390: denoise_loss = state_loss_mean + yaw_loss_mean; the noise error
\* of get_noise is logged only
SampleLoss(state_loss_mean, yaw_loss_mean, diffusion_loss) ==
    FAdd(state_loss_mean, yaw_loss_mean)

\* lines 382-434: the branch of prediction_type, as the loss it adds and the
\* entries it logs
DenoiseBranch(c, outs, noise, noised_action_normalized, diffusion_steps, gt_actions_normalized, in, agents_future_valid) ==
    CASE c.prediction_type = "sample" ->
            LET l == denoise_loss(outs.denoised_trajs, in.agents_future,
                                  agents_future_valid, in.agents_interested)
                n == GetNoise(outs.denoised_actions_normalized, noised_action_normalized,
                              diffusion_steps, noise)
            IN  [raised |-> FALSE,
                 denoise_loss |-> SampleLoss(l.state_loss_mean, l.yaw_loss_mean,
                                             n.diffusion_loss),
                 log |-> [state_loss |-> l.state_loss_mean, yaw_loss |-> l.yaw_loss_mean,
                          diffusion_loss |-> n.diffusion_loss]]
      [] c.prediction_type = "error" ->
            LET l == mse_loss(outs.denoiser_output, noise)
            IN  [raised |-> FALSE, denoise_loss |-> l, log |-> [diffusion_loss |-> l]]
      [] c.prediction_type = "mean" ->
            LET l == action_loss(outs.denoised_actions_normalized, gt_actions_normalized,
                                 in.gt_actions_valid, in.agents_interested)
            IN  [raised |-> FALSE, denoise_loss |-> l, log |-> [action_loss |-> l]]
      [] OTHER -> [raised |-> TRUE]

\* lines 376-445: the denoise loss and the ADE / FDE of the main pass
SupDenoiseLoss ==
    /\ sup.pc = "denoised"
    /\ LET branch == DenoiseBranch(sup.in.cfg, sup.denoise_outputs, sup.noise,
                                   sup.noised_action_normalized, sup.diffusion_steps,
                                   sup.gt_actions_normalized, sup.in, sup.agents_future_valid)
           metrics == calculate_metrics_denoise(sup.denoise_outputs.denoised_trajs,
                                                sup.in.agents_future,
                                                sup.agents_future_valid,
                                                sup.in.agents_interested)
       IN  IF branch.raised
           THEN sup' = With(sup, [pc |-> "raised", error |-> "Invalid prediction type"])
           ELSE sup' = With(sup,
                    [pc |-> "denoise_done",
                     denoise_loss |-> branch.denoise_loss,
                     total_loss |-> LossAdd(sup.total_loss, Scalar(branch.denoise_loss)),
                     log_dict |-> With(With(sup.log_dict, branch.log), metrics)])
    /\ UNCHANGED <<lifeVars, loss, rw, rt, fn>>

\* line 465: pred_loss = goal_loss_mean + 0.05 * score_loss_mean
PredLoss(goal_loss_mean, score_loss_mean) ==
    LossAdd(Scalar(goal_loss_mean), ScoreTimes(<<1, 20>>, score_loss_mean))

\* lines 448-462 and goal_loss lines 611-634: the predictor's candidates and
\* the index goal_loss selects for every agent
SupGoalSelect ==
    /\ sup.pc = "denoise_done"
    /\ sup.in.cfg.train_predictor
    /\ sup' = With(sup,
            [pc |-> "selected",
             goal |-> GoalSelect(sup.in.goal_trajs, sup.in.agents_future,
                                 sup.agents_future_valid, sup.in.anchors,
                                 sup.in.agents_interested)])
    /\ UNCHANGED <<lifeVars, loss, rw, rt, fn>>

SupPredictWith(goal, metrics) ==
    sup' = With(sup,
        [pc |-> "predicted",
         goal |-> With(sup.goal, goal),
         pred_loss |-> PredLoss(goal.traj_loss_mean, goal.score_loss_mean),
         total_loss |-> LossAdd(sup.total_loss,
                                PredLoss(goal.traj_loss_mean, goal.score_loss_mean)),
         log_dict |-> With(With(sup.log_dict,
                                [goal_loss |-> goal.traj_loss_mean,
                                 score_loss |-> goal.score_loss_mean]), metrics)])

\* goal_loss lines 635-650 and lines 464-479: the predictor losses and metrics
SupPredict ==
    /\ sup.pc = "selected"
    /\ SupPredictWith(GoalLossOf(sup.in.goal_trajs, sup.in.goal_scores, sup.in.agents_future,
                                 sup.agents_future_valid, sup.in.agents_interested,
                                 sup.goal.idx),
                      calculate_metrics_predict(sup.in.goal_trajs, sup.in.agents_future,
                                                sup.agents_future_valid,
                                                sup.in.agents_interested))
    /\ UNCHANGED <<lifeVars, loss, rw, rt, fn>>

\* lines 482-488: log_dict['loss'] = total_loss.item(), which the int 0 does
\* not have; then the return
SupReturn ==
    /\ \/ sup.pc = "predicted"
       \/ sup.pc = "denoise_done" /\ ~sup.in.cfg.train_predictor
    /\ IF ~sup.total_loss.tensor
       THEN sup' = With(sup, [pc |-> "raised", error |-> "'int' object has no attribute 'item'"])
       ELSE sup' = With(sup,
                [pc |-> "done",
                 log_dict |-> With(sup.log_dict, [loss |-> sup.total_loss]),
                 returned |-> sup.total_loss])
    /\ UNCHANGED <<lifeVars, loss, rw, rt, fn>>

(***************************************************************************)
(* normalize_actions / unnormalize_actions applied to an action tensor,    *)
(* one after the other, under the registered buffers.                      *)
(***************************************************************************)
\* action, mean and std values of a channel; a std is never 0
ActionValues == {RNorm(n, d) : n \in (-MaxAction)..MaxAction, d \in {1, 3}}
MeanValues == {R(-1), R(0), <<1, 2>>}
StdValues == {R(-2), <<1, 2>>, R(1), R(3)}

\* an action tensor [A, T, 2] whose values differ by channel and by agent
ActionTensor(accel, yaw) ==
    [s \in Slots |-> RAdd(IF s[3] = "accel" THEN accel ELSE yaw, R(s[1] - 1))]

InitRoundTrip ==
    /\ \E ma \in MeanValues, my \in MeanValues, sa \in StdValues, sy \in StdValues :
          buffers = RegisterBuffers(Channels(ma, my), Channels(sa, sy))
    /\ \E accel \in ActionValues, yaw \in ActionValues :
          rt = [actions |-> ActionTensor(accel, yaw),
                values |-> <<ActionTensor(accel, yaw)>>,
                applied |-> <<>>]

Converted(name, actions) ==
    [rt EXCEPT !.values = Append(@, actions), !.applied = Append(@, name)]

NormalizeActions ==
    /\ Len(rt.applied) < MaxConversions
    /\ rt' = Converted("normalize_actions",
                       normalize_actions(buffers, rt.values[Len(rt.values)]))
    /\ UNCHANGED <<lifeVars, loss, rw, sup, fn>>

UnnormalizeActions ==
    /\ Len(rt.applied) < MaxConversions
    /\ rt' = Converted("unnormalize_actions",
                       unnormalize_actions(buffers, rt.values[Len(rt.values)]))
    /\ UNCHANGED <<lifeVars, loss, rw, sup, fn>>

(***************************************************************************)
(* One stand-alone call of DPR_GRPO.calculate_metrics_denoise with top_k 8 *)
(* on more agents than top_k.                                              *)
(***************************************************************************)
MetricDevs == {-3, 0, 3}
MetricInterest == {"all", "first", "none", "beyond"}

\* G candidates of MetricAgents agents: agent `who` is displaced by d1 in
\* the first candidate and by d2 in the others, every agent beyond top_k by 12
MetricsInput(who, d1, d2, fp, ip) ==
    [denoised_trajs |->
        [g \in Group |-> [b \in Batch |-> [i \in (1..MetricAgents) \X TrajSteps |->
            IF i[1] > TopK THEN Displaced(FutureBase(i[1], i[2]), 12, 0)
            ELSE IF i[1] = who THEN Displaced(FutureBase(i[1], i[2]), IF g = 1 THEN d1 ELSE d2, 0)
            ELSE FutureBase(i[1], i[2])]]],
     agents_future |->
        [b \in Batch |-> [i \in (1..MetricAgents) \X (0..TrajLen) |->
            IF \/ fp = "none" /\ i[2] > 0
               \/ fp = "end_invalid" /\ i[1] = 1 /\ i[2] = TrajLen
            THEN ZeroState ELSE FutureBase(i[1], i[2])]],
     agents_future_valid |->
        [b \in Batch |-> [i \in (1..MetricAgents) \X (0..TrajLen) |->
            ~(\/ fp = "none" /\ i[2] > 0
              \/ fp = "end_invalid" /\ i[1] = 1 /\ i[2] = TrajLen)]],
     agents_interested |->
        [b \in Batch |-> [a \in 1..MetricAgents |->
            CASE ip = "all" -> 1
              [] ip = "first" -> (IF a = 1 THEN 1 ELSE 0)
              [] ip = "beyond" -> (IF a > TopK THEN 1 ELSE 0)
              [] OTHER -> 0]],
     top_k |-> TopK]

InitMetrics ==
    \E who \in {1, TopK}, d1 \in MetricDevs, d2 \in MetricDevs,
       fp \in FuturePatterns, ip \in MetricInterest :
        fn = [op |-> "calculate_metrics_denoise", pc |-> "called",
              in |-> MetricsInput(who, d1, d2, fp, ip)]

CalculateMetricsDenoise ==
    /\ fn.op = "calculate_metrics_denoise"
    /\ fn.pc = "called"
    /\ fn' = [fn EXCEPT !.pc = "returned"] @@
             [out |-> calculate_metrics_denoise_grpo(
                          fn.in.denoised_trajs, fn.in.agents_future,
                          fn.in.agents_future_valid, fn.in.agents_interested,
                          fn.in.top_k, GroupSize, MetricAgents)]
    /\ UNCHANGED <<lifeVars, loss, rw, sup, rt>>

(***************************************************************************)
(* The yaw term of denoise_loss, called on one predicted and one true      *)
(* heading, each shifted by whole turns.                                   *)
(***************************************************************************)
MaxTurns == 2           \* headings are shifted by -MaxTurns..MaxTurns turns
MaxYawCalls == 2        \* calls of the yaw term on one pair of headings

YawValues == {<<-313, 100>>, R(-3), R(-1), R(0), R(2), <<313, 100>>, Pi, RNeg(Pi)}

Turned(theta, k) == RAdd(theta, RMul(R(k), RMul(R(2), Pi)))

InitYaw ==
    \E theta \in YawValues, theta_gt \in YawValues :
        fn = [op |-> "yaw_loss", theta |-> theta, theta_gt |-> theta_gt, out |-> <<>>]

\* yaw_loss for denoised heading theta + 2 pi k and true heading theta_gt + 2 pi k_gt
YawLossCall ==
    /\ fn.op = "yaw_loss"
    /\ Len(fn.out) < MaxYawCalls
    /\ \E k \in -MaxTurns..MaxTurns, k_gt \in -MaxTurns..MaxTurns :
          fn' = [fn EXCEPT !.out =
                    Append(@, [k |-> k, k_gt |-> k_gt,
                               yaw_loss |-> YawLoss(Turned(fn.theta, k),
                                                    Turned(fn.theta_gt, k_gt))])]
    /\ UNCHANGED <<lifeVars, loss, rw, sup, rt>>

(***************************************************************************)
(* Tensor shapes through one forward_denoiser call.  A call is described   *)
(* by the configured agents_len and predicted_agents_num, the prediction   *)
(* type, the number of agents of encoder_outputs['agents'] and the number  *)
(* of agents of agents_future and of the noised actions, which             *)
(* forward_and_get_loss slices from the batch with the same [:, :A].       *)
(***************************************************************************)
MaxShape == 3           \* agent counts are 1..MaxShape

\* lines 307-319: agents_future = batch['agents_future'][:, :self._agents_len]
SlicedAgents(batch_agents, agents_len) == Min(batch_agents, agents_len)

\* Decoder.forward: B, P, _, _ = future_traj.shape; assert P == self._predicted_agents_num
Decoder_forward(predicted_agents_num, P) ==
    IF P # predicted_agents_num
    THEN [raised |-> "AssertionError"]
    ELSE [raised |-> "none", agents |-> P]

\* roll_out(current_states, actions, ...): one trajectory per agent, the two
\* agent counts asserted equal
RollOutShapes(state_agents, action_agents) ==
    IF state_agents # action_agents
    THEN [raised |-> "AssertionError"]
    ELSE [raised |-> "none", agents |-> action_agents]

\* forward_denoiser with encoder_outputs['agents'] taken as it comes: the
\* slice [:, :agents_len] keeps the agents there are
ForwardDenoiserTruncating(c, enc_agents, P) ==
    LET denoiser_output == Decoder_forward(c.predicted_agents_num, P)
    IN  IF denoiser_output.raised # "none" THEN denoiser_output
        ELSE IF ~QX0Accepts(c.prediction_type) THEN [raised |-> "ValueError"]
        ELSE [raised |-> "none", denoised_actions |-> P,
              denoised_trajs |-> Min(Min(enc_agents, c.agents_len), P)]

\* forward_denoiser, lines 207-241, on shapes: the agent count of every
\* returned tensor, or the exception raised
ForwardDenoiserShapes(c, enc_agents, P) ==
    LET denoiser_output == Decoder_forward(c.predicted_agents_num, P)
        current_states == Min(enc_agents, c.agents_len)
        denoised_trajs == RollOutShapes(current_states, P)
    IN  IF denoiser_output.raised # "none" THEN denoiser_output
        ELSE IF ~QX0Accepts(c.prediction_type) THEN [raised |-> "ValueError"]
        ELSE IF ~(enc_agents >= c.agents_len) THEN [raised |-> "AssertionError"]
        ELSE IF denoised_trajs.raised # "none" THEN denoised_trajs
        ELSE [raised |-> "none", denoised_actions |-> denoiser_output.agents,
              denoised_trajs |-> denoised_trajs.agents]

InitShapes ==
    \E agents_len \in 1..MaxShape, predicted_agents_num \in 1..MaxShape,
       batch_agents \in 1..MaxShape, enc_agents \in 1..MaxShape,
       prediction_type \in PredictionTypes :
        fn = [op |-> "forward_denoiser", pc |-> "called",
              cfg |-> [agents_len |-> agents_len,
                       predicted_agents_num |-> predicted_agents_num,
                       prediction_type |-> prediction_type],
              enc_agents |-> enc_agents,
              agents |-> SlicedAgents(batch_agents, agents_len)]

ForwardDenoiserCall ==
    /\ fn.op = "forward_denoiser"
    /\ fn.pc = "called"
    /\ fn' = [fn EXCEPT !.pc = "returned"] @@
             [out |-> ForwardDenoiserShapes(fn.cfg, fn.enc_agents, fn.agents)]
    /\ UNCHANGED <<lifeVars, loss, rw, sup, rt>>

(***************************************************************************)
(* Timesteps through the denoiser branch of forward_and_get_loss: the      *)
(* ground-truth actions of inverse_kinematics, the network's future_len    *)
(* actions, the trajectory roll_out makes of them and the future it is     *)
(* compared with.                                                          *)
(***************************************************************************)
MaxFutureSteps == 6     \* future states of a batch and future_len are 1..MaxFutureSteps

\* line 318: inverse_kinematics(agents_future, agents_future_valid, dt=0.1,
\* action_len=self._action_len); steps counts the states, the current one included
InverseKinematicsCall(c, steps) ==
    [op |-> "inverse_kinematics", steps |-> steps, dt |-> <<1, 10>>,
     action_len |-> c.action_len]

\* one action per action_len future states
InverseKinematicsActions(ik) == (ik.steps - 1) \div ik.action_len

\* a constant action_len, whatever the configuration says
DenoiserActionLenOne(c) == 1

\* self.denoiser._action_len: Decoder(action_len=cfg['action_len'], ...)
DenoiserActionLen(c) == c.action_len

\* lines 228-233: roll_out(current_states, denoised_actions,
\* action_len=self.denoiser._action_len, global_frame=True); dt is roll_out's own
RollOutStepsCall(c, actions) ==
    [op |-> "roll_out", actions |-> actions, dt |-> <<1, 10>>,
     action_len |-> DenoiserActionLen(c)]

\* action_len states per action
RollOutSteps(ro) == ro.actions * ro.action_len

\* the denoiser branch on shapes: the network takes and returns future_len
\* actions per agent, and the losses and metrics compare the rolled-out
\* states elementwise with agents_future[..., 1:, :]
DenoiserBranchSteps(c, steps) ==
    LET ik == InverseKinematicsCall(c, steps)
        gt_actions == InverseKinematicsActions(ik)
        ro == RollOutStepsCall(c, gt_actions)
        denoised_trajs == RollOutSteps(ro)
    IN  IF gt_actions # c.future_len
        THEN [raised |-> "RuntimeError", calls |-> <<ik>>]
        ELSE IF denoised_trajs # steps - 1
        THEN [raised |-> "RuntimeError", calls |-> <<ik, ro>>]
        ELSE [raised |-> "none", calls |-> <<ik, ro>>, gt_actions |-> gt_actions,
              denoised_trajs |-> denoised_trajs, agents_future |-> steps - 1]

InitSteps ==
    \E action_len \in 1..MaxShape, future_len \in 1..MaxFutureSteps,
       future \in 1..MaxFutureSteps :
        fn = [op |-> "denoiser_branch", pc |-> "called",
              cfg |-> [action_len |-> action_len, future_len |-> future_len],
              steps |-> future + 1]

DenoiserBranchCall ==
    /\ fn.op = "denoiser_branch"
    /\ fn.pc = "called"
    /\ fn' = [fn EXCEPT !.pc = "returned"] @@
             [out |-> DenoiserBranchSteps(fn.cfg, fn.steps)]
    /\ UNCHANGED <<lifeVars, loss, rw, sup, rt>>

(***************************************************************************)
(* Encoder.forward on one scene batch.  The learned sub-encoders are not   *)
(* evaluated: what relation_encoder and transformer_encoder return is      *)
(* carried as an opaque value of their arguments.                          *)
(***************************************************************************)
\* encoder_outputs['anchors'] = inputs['anchors'][:, :32, :, :]
AnchorAgents == 32

SceneAgents == 2        \* agents of a scene given to the encoder
ScenePolylines == 2     \* polylines of a scene
SceneLights == 2        \* traffic light points of a scene

InterestValues == {0, 1, 10}
ValidValues == {0, 1}
\* [x, y, state] of a traffic light point; <<0, 0, 0>> is padding
LightValues == {<<0, 0, 0>>, <<2, -3, 1>>, <<1, 1, 4>>}
AnchorCounts == {AnchorAgents - 1, AnchorAgents, AnchorAgents + 1}

\* torch.eq(agents_interested, 0)
AgentsMaskOfInterest(agents_interested) ==
    [b \in Batch |-> [a \in DOMAIN agents_interested[b] |-> agents_interested[b][a] > 0]]

AgentsMask(agents_interested) ==
    [b \in Batch |-> [a \in DOMAIN agents_interested[b] |-> agents_interested[b][a] = 0]]

\* inputs['polylines_valid'].logical_not()
MapsMask(polylines_valid) ==
    [b \in Batch |-> [p \in DOMAIN polylines_valid[b] |-> polylines_valid[b][p] = 0]]

\* torch.eq(traffic_lights.sum(-1), 0)
TrafficLightsMask(traffic_lights) ==
    [b \in Batch |-> [l \in DOMAIN traffic_lights[b] |->
        traffic_lights[b][l][1] + traffic_lights[b][l][2] + traffic_lights[b][l][3] = 0]]

\* inputs['anchors'][:, :32, :, :]
EncoderAnchors(anchors) ==
    [b \in Batch |-> SubSeq(anchors[b], 1, Min(AnchorAgents, Len(anchors[b])))]

\* Encoder.forward(inputs)
Encoder_forward(inputs) ==
    LET agents == inputs.agents_history
        agents_mask == AgentsMask(inputs.agents_interested)
        maps_mask == MapsMask(inputs.polylines_valid)
        traffic_lights_mask == TrafficLightsMask(inputs.traffic_light_points)
        relations == [op |-> "relation_encoder", relations |-> inputs.relations]
    IN  [agents |-> agents,
         anchors |-> EncoderAnchors(inputs.anchors),
         agents_type |-> inputs.agents_type,
         agents_mask |-> agents_mask,
         maps_mask |-> maps_mask,
         traffic_lights_mask |-> traffic_lights_mask,
         relation_encodings |-> relations,
         encodings |-> [op |-> "transformer_encoder", relations |-> relations,
                        agents |-> agents, agents_type |-> inputs.agents_type,
                        polylines |-> inputs.polylines,
                        traffic_lights |-> inputs.traffic_light_points,
                        agents_mask |-> agents_mask, maps_mask |-> maps_mask,
                        traffic_lights_mask |-> traffic_lights_mask]]

\* a batch whose first scene varies and whose other scenes are fully valid
SceneBatch(interest, valid, lights, anchor_count) ==
    [agents_history |-> [b \in Batch |-> [a \in 1..SceneAgents |-> <<"history", b, a>>]],
     agents_type |-> [b \in Batch |-> [a \in 1..SceneAgents |-> 1]],
     agents_interested |-> [b \in Batch |-> IF b = 1 THEN interest
                                            ELSE [a \in 1..SceneAgents |-> 10]],
     polylines |-> [b \in Batch |-> [p \in 1..ScenePolylines |-> <<"polyline", b, p>>]],
     polylines_valid |-> [b \in Batch |-> IF b = 1 THEN valid
                                          ELSE [p \in 1..ScenePolylines |-> 1]],
     traffic_light_points |-> [b \in Batch |-> IF b = 1 THEN lights
                                               ELSE [l \in 1..SceneLights |-> <<1, 1, 4>>]],
     relations |-> "relations",
     anchors |-> [b \in Batch |-> [a \in 1..anchor_count |-> <<"anchors", b, a>>]]]

InitEncoder ==
    \E interest \in [1..SceneAgents -> InterestValues],
       valid \in [1..ScenePolylines -> ValidValues],
       lights \in [1..SceneLights -> LightValues],
       anchor_count \in AnchorCounts :
        fn = [op |-> "encoder", pc |-> "called",
              inputs |-> SceneBatch(interest, valid, lights, anchor_count)]

EncoderForward ==
    /\ fn.op = "encoder"
    /\ fn.pc = "called"
    /\ fn' = [fn EXCEPT !.pc = "returned"] @@ [out |-> Encoder_forward(fn.inputs)]
    /\ UNCHANGED <<lifeVars, loss, rw, sup, rt>>

(***************************************************************************)
(* compute_grpo_trajectory_reward on scenes built from a speed profile, a  *)
(* heading profile, the gap between neighbouring agents and the actions.   *)
(* The scene is candidate 1 of batch element 1; the other slices are at    *)
(* the target speed, straight, far apart and without control input.        *)
(***************************************************************************)
SpeedKinds == {"target", "diagonal", "slow"}
GapValues == {10, 2, 1}
ActionKinds == {"none", "zero", "accel", "yaw"}

\* the state of agent n at timestep t
SceneState(speed, speeding, turning, gap, n, t) ==
    LET more == IF speeding /\ t = TrajLen THEN 1 ELSE 0
    IN  [x |-> R(5 * t), y |-> R(gap * n),
         theta |-> R(IF turning /\ t = TrajLen THEN 1 ELSE 0),
         v_x |-> R((CASE speed = "target" -> 5 [] speed = "diagonal" -> 3 [] OTHER -> 3) + more),
         v_y |-> R(IF speed = "diagonal" THEN 4 ELSE 0)]

SceneActions(kind) ==
    [s \in Slots |-> R(IF (kind = "accel" /\ s[3] = "accel" /\ s[1] = 1)
                          \/ (kind = "yaw" /\ s[3] = "yaw" /\ s[1] = NumAgents)
                       THEN 1 ELSE 0)]

RewardScene(speed, speeding, turning, gap, kind) ==
    [trajectories |->
        [g \in Group |-> [b \in Batch |-> [i \in Agents \X TrajSteps |->
            IF g = 1 /\ b = 1
            THEN SceneState(speed, speeding, turning, gap, i[1], i[2])
            ELSE SceneState("target", FALSE, FALSE, 10, i[1], i[2])]]],
     actions |->
        IF kind = "none" THEN NoActions
        ELSE [g \in Group |-> [b \in Batch |->
                SceneActions(IF g = 1 /\ b = 1 THEN kind ELSE "zero")]]]

InitRewardScene ==
    \E speed \in SpeedKinds, speeding \in BOOLEAN, turning \in BOOLEAN,
       gap \in GapValues, kind \in ActionKinds :
        fn = [op |-> "reward", pc |-> "called", v_target |-> R(5), collision_dist |-> R(2),
              in |-> RewardScene(speed, speeding, turning, gap, kind)]

RewardCall ==
    /\ fn.op = "reward"
    /\ fn.pc = "called"
    /\ fn' = [fn EXCEPT !.pc = "returned"] @@
             [out |-> compute_grpo_trajectory_reward(fn.in.trajectories, fn.in.actions,
                                                     fn.v_target, fn.collision_dist)]
    /\ UNCHANGED <<lifeVars, loss, rw, sup, rt>>

(***************************************************************************)
(* The learning-rate schedule of configure_optimizers: LambdaLR evaluates  *)
(* lr_update at step 0 when it is built and at the next step after every   *)
(* scheduler step.                                                         *)
(***************************************************************************)
MaxLrStep == 8          \* scheduler steps taken
MaxWarmup == 3          \* cfg['lr_warmup_step'] is 0..MaxWarmup
MaxStepFreq == 3        \* cfg['lr_step_freq'] is 1..MaxStepFreq

\* cfg['lr_step_gamma']
GammaValues == {R(-1), R(0), <<1, 10>>, <<1, 2>>, R(1), R(2)}

\* gamma ** n for an int n >= 0
RECURSIVE RPow(_, _)
RPow(gamma, n) == IF n = 0 THEN R(1) ELSE RMul(gamma, RPow(gamma, n - 1))

\* lr_scale before the two bounds are applied
LrScale(step, warmup_step, step_size, gamma) ==
    IF step < warmup_step
    THEN RSub(R(1), RMul(RDiv(R(warmup_step - step), R(warmup_step)), <<95, 100>>))
    ELSE RPow(gamma, (step - warmup_step) \div step_size)

\* the multiplier without its bounds
LrUpdateUnbounded(step, warmup_step, step_size, gamma) ==
    LrScale(step, warmup_step, step_size, gamma)

\* lr_update(step, warmup_step, step_size, gamma)
lr_update(step, warmup_step, step_size, gamma) ==
    LET lr_scale == LrScale(step, warmup_step, step_size, gamma)
    IN  IF RLess(lr_scale, <<1, 100>>) THEN <<1, 100>>
        ELSE IF RLess(R(1), lr_scale) THEN R(1)
        ELSE lr_scale

InitLr ==
    \E warmup_step \in 0..MaxWarmup, step_size \in 1..MaxStepFreq, gamma \in GammaValues :
        fn = [op |-> "lr_update", step |-> 0,
              warmup_step |-> warmup_step, step_size |-> step_size, gamma |-> gamma,
              lr_scale |-> lr_update(0, warmup_step, step_size, gamma),
              last_lr_scale |-> lr_update(0, warmup_step, step_size, gamma)]

\* scheduler.step(): the multiplier of the next step
SchedulerStep ==
    /\ fn.op = "lr_update"
    /\ fn.step < MaxLrStep
    /\ fn' = [fn EXCEPT !.step = @ + 1,
                        !.last_lr_scale = fn.lr_scale,
                        !.lr_scale = lr_update(fn.step + 1, fn.warmup_step,
                                               fn.step_size, fn.gamma)]
    /\ UNCHANGED <<lifeVars, loss, rw, sup, rt>>

(***************************************************************************)
(* Reference policy: synchronisation, freezing, storage                    *)
(***************************************************************************)
\* C1: immediately after on_train_epoch_end every reference parameter
\* equals the denoiser parameter of the same key, and every reference
\* parameter still has requires_grad = False.
C1_SyncOverwritesAndStaysFrozen ==
    lastOp = "on_train_epoch_end" =>
        \A k \in ParamKeys :
            /\ params[ReferenceParam(k)].data = params[DenoiserParam(k)].data
            /\ ~params[ReferenceParam(k)].requires_grad

\* a sync in the second epoch, of a trained denoiser whose parameters differ
C1_Witness ==
    /\ lastOp = "on_train_epoch_end"
    /\ current_epoch = 2
    /\ cfg.train_denoiser
    /\ ReferenceValues["weight"] # ReferenceValues["bias"]

\* C2: the reference parameters change in no step other than
\* on_train_epoch_end, and every forward pass reads the reference
\* parameters as they stand since the last epoch end (or construction).
C2_ReferenceMutatedOnlyAtEpochEnd ==
    [][ /\ (lastOp' # "on_train_epoch_end" => ReferenceValues' = ReferenceValues)
        /\ (fwd'.read => fwd'.reference = ReferenceValues) ]_vars

\* a forward pass after an epoch end in which the trained denoiser has
\* moved away from the reference it is compared with
C2_Witness ==
    /\ lastOp = "training_step"
    /\ current_epoch = 1
    /\ fwd.read
    /\ fwd.denoiser # fwd.reference

\* C3: the reference is a value-only copy: no parameter object is shared
\* with the denoiser, it equals the denoiser after construction and after a
\* sync, and an optimizer update leaves every reference value unchanged.
C3_ValueOnlyCopy ==
    /\ [](/\ ReferenceParams \cap DenoiserParams = {}
          /\ Cardinality(DOMAIN params) >= 2 * Cardinality(ParamKeys)
          /\ (lastOp \in {"__init__", "on_train_epoch_end"}
                 => ReferenceValues = DenoiserValues))
    /\ [][lastOp' = "optimizer_step" => ReferenceValues' = ReferenceValues]_vars

\* an optimizer update has moved the denoiser and the reference kept its value
C3_Witness ==
    /\ lastOp = "optimizer_step"
    /\ DenoiserValues # ReferenceValues
    /\ \A k \in ParamKeys : ~params[ReferenceParam(k)].requires_grad

(***************************************************************************)
(* GRPO loss: advantages, action errors, ratios, KL term, candidates       *)
(***************************************************************************)
Compared == loss.pc \in {"compared", "ratioed", "advantaged", "scored", "done"}
Ratioed == loss.pc \in {"ratioed", "advantaged", "scored", "done"}
Advantaged == loss.pc \in {"advantaged", "scored", "done"}
Scored == loss.pc \in {"scored", "done"}
Noised == loss.pc \notin {"idle", "start", "prepared"}

\* e^p < e^q exactly when p < q
ExpLess(r1, r2) == RLess(Log(r1), Log(r2))

\* C4: for every batch element b the advantage of candidate g is
\* reward[g, b] minus the mean of the G rewards reward[.., b] of the same
\* batch element, and the advantages of b sum to exactly 0 over its group.
C4_GroupRelativeAdvantage ==
    Advantaged =>
        \A b \in Batch :
            LET mean_b == RDiv(RSum([h \in Group |-> At(loss.rewards_GB, h, b)]),
                               R(GroupSize))
            IN  /\ \A g \in Group :
                    At(loss.advantages, b, g) = RSub(At(loss.rewards_GB, g, b), mean_b)
                /\ RSum([g \in Group |-> At(loss.advantages, b, g)]) = R(0)

\* a finished call where the rewards are not symmetric in (g, b) and an
\* advantage is not zero
C4_Witness ==
    /\ loss.pc = "done"
    /\ At(loss.rewards_GB, 1, 2) # At(loss.rewards_GB, 2, 1)
    /\ \E b \in Batch, g \in Group : At(loss.advantages, b, g) # R(0)
    /\ \E b \in Batch : \A g \in Group : At(loss.advantages, b, g) = R(0)

\* C5: the action error of every candidate, for the current and for the
\* reference policy, is the masked mean squared error between the denoised
\* actions and the ground truth, both in normalized action space.
C5_ErrorInNormalizedSpace ==
    Compared =>
        \A g \in Group, b \in Batch :
            /\ At(loss.action_differences, g, b) =
                 MaskedSquaredErrorMean(loss.denoise_outputs[g].denoised_actions_normalized[b],
                                        loss.gt_actions_normalized[b],
                                        loss.in.gt_actions_valid[b])
            /\ At(loss.action_differences_old, g, b) =
                 MaskedSquaredErrorMean(loss.denoise_outputs[g].denoised_actions_normalized_old[b],
                                        loss.gt_actions_normalized[b],
                                        loss.in.gt_actions_valid[b])

\* C6: the KL term is the mean of (r - 1 - log r) with the same ratio r in
\* both places, for every ratio value, and the total loss is
\* policy_loss + beta * KL.
C6_KLOfTheSameRatio ==
    Scored =>
        /\ \A i \in DOMAIN loss.kl_div.mean_of.data :
              LET term == loss.kl_div.mean_of.data[i]
              IN  /\ term.ratio = loss.ratios.data[i]
                  /\ term.minus = R(1)
                  /\ term.minus_log = Log(term.ratio)
        /\ loss.total_loss =
              [policy_loss |-> loss.policy_loss,
               plus |-> [beta |-> loss.in.cfg.beta, times |-> loss.kl_div]]

\* C7: every log-ratio that enters policy_loss lies in [log 1e-8, log 10],
\* whatever the two errors are, and the policy loss is a finite number.
C7_LogRatioClamped ==
    /\ Advantaged =>
          \A i \in DOMAIN loss.log_ratios.data :
              /\ RLeq(Log(ClampMin), loss.log_ratios.data[i])
              /\ RLeq(loss.log_ratios.data[i], Log(ClampMax))
              /\ ~ExpLess(loss.ratios.data[i], ClampMin) /\ ~ExpLess(ClampMax, loss.ratios.data[i])
                    => loss.log_ratios.data[i] = Log(loss.ratios.data[i])
    /\ Scored => loss.policy_loss \in Int \X (Nat \ {0})

\* a finished call with one ratio above 10 and one below 1e-8
C7_Witness ==
    /\ loss.pc = "done"
    /\ \E i \in DOMAIN loss.ratios.data : ExpLess(ClampMax, loss.ratios.data[i])
    /\ \E i \in DOMAIN loss.ratios.data : ExpLess(loss.ratios.data[i], ClampMin)

\* C8: the ratio of every candidate is exp(reference error - current
\* error): above 1 exactly when the current error is strictly lower, 1
\* exactly when the errors are equal, below 1 otherwise.
C8_RatioOrdersErrors ==
    Ratioed =>
        \A g \in Group, b \in Batch :
            LET r == At(loss.ratios_GB, g, b)
                cur == At(loss.action_differences, g, b)
                ref == At(loss.action_differences_old, g, b)
            IN  /\ r = Exp(RSub(ref, cur))
                /\ ExpLess(One, r) <=> RLess(cur, ref)
                /\ r = One <=> cur = ref
                /\ ExpLess(r, One) <=> RLess(ref, cur)
                /\ At(loss.ratios, b, g) = r

\* a finished call with a ratio above 1, a ratio of 1 and a ratio below 1
C8_Witness ==
    /\ loss.pc = "done"
    /\ \E i \in DOMAIN loss.ratios_GB.data : ExpLess(One, loss.ratios_GB.data[i])
    /\ \E i \in DOMAIN loss.ratios_GB.data : loss.ratios_GB.data[i] = One
    /\ \E i \in DOMAIN loss.ratios_GB.data : ExpLess(loss.ratios_GB.data[i], One)

\* the two inputs have the same trajectories and actions in slice (g, b)
SameSlice(g, b) ==
    /\ rw.first.trajectories[g][b] = rw.second.trajectories[g][b]
    /\ (rw.first.actions = NoActions) = (rw.second.actions = NoActions)
    /\ rw.first.actions # NoActions => rw.first.actions[g][b] = rw.second.actions[g][b]

\* C9: reward[g, b] depends only on trajectories[g, b] and actions[g, b]:
\* two inputs that agree on slice (g, b) get the same reward[g, b].
C9_RewardIndependentAcrossSlices ==
    rw.pc = "done" =>
        \A g \in Group, b \in Batch :
            SameSlice(g, b) => At(rw.reward_first, g, b) = At(rw.reward_second, g, b)

\* two inputs that differ in one slice, whose reward changed
C9_Witness ==
    /\ rw.pc = "done"
    /\ rw.first.actions # NoActions
    /\ \E g \in Group, b \in Batch :
          /\ ~SameSlice(g, b)
          /\ At(rw.reward_first, g, b) # At(rw.reward_second, g, b)
          /\ \E h \in Group : h # g /\ SameSlice(h, b)

\* C10: exactly group_size candidates are noised and denoised; every one
\* is noised from the same normalized ground truth at the same timesteps,
\* with its own noise draw, so that candidates of a batch element with equal
\* noise are equal.
C10_CandidatesShareTargetAndTimestep ==
    Noised =>
        LET G == loss.in.cfg.group_size
            calls == loss.add_noise_calls
        IN  /\ Len(calls) = G
            /\ Len(loss.noised_action_normalized) = G
            /\ loss.pc # "noised" => Len(loss.denoise_outputs) = G
            /\ \A g \in 1..G :
                  /\ calls[g].x0 = [b \in Batch |->
                        normalize_actions(loss.in.cfg, loss.in.gt_actions[b])]
                  /\ calls[g].t = [b \in Batch |-> [a \in Agents |-> loss.in.randint[b]]]
                  /\ calls[g].noise = loss.in.randn[g]
                  /\ \A b \in Batch :
                        loss.noised_action_normalized[g][b] =
                            AddNoise(calls[g].x0[b], calls[g].noise[b], calls[g].t[b])
            /\ \A g \in 1..G, h \in 1..G, b \in Batch :
                  calls[g].noise[b] = calls[h].noise[b] =>
                      loss.noised_action_normalized[g][b] = loss.noised_action_normalized[h][b]

\* a finished call where two candidates of a batch element differ by their
\* noise, at a timestep other than 0
C10_Witness ==
    /\ loss.pc = "done"
    /\ \E b \in Batch :
          /\ loss.in.randint[b] # 0
          /\ loss.noised_action_normalized[1][b] # loss.noised_action_normalized[2][b]
    /\ \E b \in Batch : loss.in.randint[b] = 0

(***************************************************************************)
(* C11.  For every candidate g of a GRPO step the trainable denoiser and   *)
(* the reference policy are invoked on the identical arguments: the        *)
(* unnormalized noised actions of candidate g, the scene embedding, the    *)
(* diffusion timestep and the conditioning trajectory of the batch.  Both  *)
(* outputs go through the same q_x0 / unnormalize / roll_out chain: the    *)
(* chain of the reference output is the chain of the denoiser output with  *)
(* only the network output exchanged, so equal outputs give equal results. *)
(***************************************************************************)
Denoised == loss.pc \in {"denoised", "compared", "ratioed", "advantaged", "scored", "done"}

C11_SameInputsSameChain ==
    Denoised =>
        \A g \in 1..loss.in.cfg.group_size :
            LET o == loss.denoise_outputs[g]
                c == loss.in.cfg
            IN  /\ o.reference_call = o.denoiser_call
                /\ o.denoiser_call.noisy_actions =
                       [b \in Batch |-> unnormalize_actions(c, loss.noised_action_normalized[g][b])]
                /\ o.denoiser_call.encoder_outputs = loss.in.encoder_outputs
                /\ o.denoiser_call.diffusion_step = loss.diffusion_steps
                /\ o.denoiser_call.agents_future = loss.in.agents_future_41
                /\ \A b \in Batch :
                      /\ o.denoised_actions_normalized[b] =
                            QX0(o.denoiser_output[b], loss.diffusion_steps[b],
                                loss.noised_action_normalized[g][b], c.prediction_type)
                      /\ o.denoised_actions_normalized_old[b] =
                            QX0(o.denoiser_output_old[b], loss.diffusion_steps[b],
                                loss.noised_action_normalized[g][b], c.prediction_type)
                      /\ o.denoised_actions[b] =
                            unnormalize_actions(c, o.denoised_actions_normalized[b])
                      /\ o.denoised_actions_old[b] =
                            unnormalize_actions(c, o.denoised_actions_normalized_old[b])
                /\ o.roll_out_call.actions = o.denoised_actions
                /\ o.roll_out_call_old.actions = o.denoised_actions_old
                /\ o.roll_out_call_old.current_states = o.roll_out_call.current_states
                /\ (o.denoiser_output_old = o.denoiser_output
                        => /\ o.denoised_actions_old = o.denoised_actions
                           /\ o.roll_out_call_old = o.roll_out_call)

\* a non-trivial normalization, a noised tensor that differs from the ground
\* truth, and one candidate on which the two networks disagree
C11_Witness ==
    /\ Denoised
    /\ loss.in.cfg.action_std.accel # R(1)
    /\ loss.in.cfg.prediction_type = "error"
    /\ \E g \in 1..loss.in.cfg.group_size :
          /\ loss.denoise_outputs[g].denoiser_output_old # loss.denoise_outputs[g].denoiser_output
          /\ loss.noised_action_normalized[g] # loss.gt_actions_normalized
          /\ loss.denoise_outputs[g].denoiser_call.noisy_actions # loss.noised_action_normalized[g]

(***************************************************************************)
(* C12.  Every diffusion timestep used inside forward_and_get_loss, in the *)
(* supervised and in the GRPO engine, is an integer in [0, num_steps); one *)
(* batch element has the same timestep for all its agents and, in GRPO,    *)
(* for all G candidates.  "Used" covers the timestep argument of every     *)
(* call to add_noise, to the policies, to q_x0 and to step.                *)
(***************************************************************************)
TimestepsOK(t) ==
    \A b \in Batch : \A a \in Agents :
        /\ t[b][a] \in 0..(NumSteps - 1)
        /\ t[b][a] = t[b][1]

\* the timestep argument of a call of the supervised step
TimestepOf(call) ==
    CASE call.op = "add_noise" -> call.t
      [] call.op = "denoiser" -> call.diffusion_step
      [] call.op = "q_x0" -> call.t
      [] OTHER -> call.timesteps

C12_TimestepsInRangeAndShared ==
    /\ loss.pc \in {"noised", "denoised", "compared", "ratioed", "advantaged", "scored", "done"} =>
          /\ TimestepsOK(loss.diffusion_steps)
          /\ \A g \in 1..loss.in.cfg.group_size :
                loss.add_noise_calls[g].t = loss.diffusion_steps
    /\ Denoised =>
          \A g \in 1..loss.in.cfg.group_size :
              /\ loss.denoise_outputs[g].denoiser_call.diffusion_step = loss.diffusion_steps
              /\ loss.denoise_outputs[g].reference_call.diffusion_step = loss.diffusion_steps
    /\ sup.pc \notin {"idle", "start"} =>
          \A k \in 1..Len(sup.calls) :
              /\ TimestepsOK(TimestepOf(sup.calls[k]))
              /\ TimestepOf(sup.calls[k]) = TimestepOf(sup.calls[1])

\* a finished supervised step with replay: add_noise, two policy calls, two
\* q_x0 and one step, on a batch whose elements drew different timesteps
C12_Witness ==
    /\ sup.pc = "done"
    /\ sup.in.cfg.replay_buffer
    /\ Len(sup.calls) = 6
    /\ sup.diffusion_steps[1][1] # sup.diffusion_steps[2][1]
    /\ sup.diffusion_steps[2][1] = NumSteps - 1

(***************************************************************************)
(* C13.  Whenever the configured prediction_type is not one of sample,     *)
(* mean, error, a call to forward_and_get_loss ends in a configuration     *)
(* error and never returns a loss, whatever the other options are          *)
(* (train_denoiser false included): no call with such a prediction_type    *)
(* reaches the return.                                                     *)
(***************************************************************************)
C13_InvalidPredictionTypeNeverReturns ==
    (sup.pc # "idle" /\ sup.in.cfg.prediction_type \notin {"sample", "mean", "error"}) =>
        sup.pc # "done"

(***************************************************************************)
(* C14.  In the supervised engine the returned total loss is exactly the   *)
(* denoise loss of the single branch selected by prediction_type (sample:  *)
(* state + yaw loss; error: noise MSE; mean: action loss; nothing when the *)
(* denoiser is not trained) plus, when the predictor is trained,           *)
(* goal_loss + 0.05 * score_loss.  The logged diffusion-noise MSE and the  *)
(* ADE / FDE metrics are no part of it, and the logged 'loss' entry is the *)
(* returned total.                                                         *)
(***************************************************************************)
\* the denoise loss the claim names for the configured branch
C14_BranchLoss ==
    CASE sup.in.cfg.prediction_type = "sample" ->
            LET l == denoise_loss(sup.denoise_outputs.denoised_trajs, sup.in.agents_future,
                                  sup.agents_future_valid, sup.in.agents_interested)
            IN  FAdd(l.state_loss_mean, l.yaw_loss_mean)
      [] sup.in.cfg.prediction_type = "error" ->
            mse_loss(sup.denoise_outputs.denoiser_output, sup.noise)
      [] OTHER ->
            action_loss(sup.denoise_outputs.denoised_actions_normalized,
                        sup.gt_actions_normalized, sup.in.gt_actions_valid,
                        sup.in.agents_interested)

C14_TotalIsBranchPlusPredictor ==
    sup.pc = "done" =>
        /\ sup.returned =
              LossAdd(IF sup.in.cfg.train_denoiser THEN Scalar(C14_BranchLoss) ELSE IntZero,
                      IF sup.in.cfg.train_predictor
                      THEN LossAdd(Scalar(sup.goal.traj_loss_mean),
                                   ScoreTimes(<<1, 20>>, sup.goal.score_loss_mean))
                      ELSE IntZero)
        /\ sup.log_dict.loss = sup.returned

\* a returned 'sample' step of a module that trains both parts, whose logged
\* noise error and ADE are finite and non-zero
C14_Witness ==
    /\ sup.pc = "done"
    /\ sup.in.cfg.prediction_type = "sample"
    /\ sup.in.cfg.train_denoiser /\ sup.in.cfg.train_predictor
    /\ IsFinite(sup.log_dict.diffusion_loss) /\ sup.log_dict.diffusion_loss # R(0)
    /\ IsFinite(sup.log_dict.denoise_ADE) /\ sup.log_dict.denoise_ADE # R(0)
    /\ IsFinite(sup.returned.value) /\ sup.returned.value # R(0)
    /\ sup.returned.terms # <<>>

(***************************************************************************)
(* C15.  Ordering of one supervised step that trains the denoiser.  With   *)
(* replay_buffer off the policy is invoked exactly once, on the add_noise  *)
(* output.  With replay_buffer on it is invoked exactly twice, in the      *)
(* order extra no-gradient pass, scheduler step, main pass, and the main   *)
(* pass receives the scheduler step's output instead of the add_noise      *)
(* output.  At every moment of a step the calls made so far are a prefix   *)
(* of that order.                                                          *)
(***************************************************************************)
C15_Ops == [k \in 1..Len(sup.calls) |-> sup.calls[k].op]

C15_Order ==
    IF sup.in.cfg.replay_buffer
    THEN <<"add_noise", "denoiser", "q_x0", "step", "denoiser", "q_x0">>
    ELSE <<"add_noise", "denoiser", "q_x0">>

\* what the policy receives for a normalized action tensor
C15_Unnormalized(actions_normalized) ==
    [b \in Batch |-> unnormalize_actions(buffers, actions_normalized[b])]

C15_MainPassDone ==
    /\ sup.pc \in {"denoised", "denoise_done", "selected", "predicted", "done"}
    /\ sup.in.cfg.train_denoiser

C15_ReplayOrdering ==
    /\ (sup.pc \notin {"idle", "start"}) =>
          /\ Len(sup.calls) <= Len(C15_Order)
          /\ C15_Ops = SubSeq(C15_Order, 1, Len(sup.calls))
    /\ (C15_MainPassDone /\ ~sup.in.cfg.replay_buffer) =>
          /\ C15_Ops = C15_Order
          /\ ~sup.calls[2].no_grad
          /\ sup.calls[2].noisy_actions = C15_Unnormalized(sup.add_noise_output)
    /\ (C15_MainPassDone /\ sup.in.cfg.replay_buffer) =>
          /\ C15_Ops = C15_Order
          /\ sup.calls[2].no_grad
          /\ sup.calls[4].sample = sup.add_noise_output
          /\ ~sup.calls[5].no_grad
          /\ sup.calls[5].noisy_actions = C15_Unnormalized(sup.in.step)

\* a finished replay step whose posterior sample differs from the add_noise
\* output, under a normalization that is not the identity
C15_Witness ==
    /\ sup.pc = "done"
    /\ sup.in.cfg.train_denoiser /\ sup.in.cfg.replay_buffer
    /\ sup.in.step # sup.add_noise_output
    /\ C15_Unnormalized(sup.in.step) # sup.in.step
    /\ Len(sup.calls) = 6

(***************************************************************************)
(* C16.  No masked mean of the loss engine divides by a zero mask sum:     *)
(* when the validity / interest mask selects no (agent, timestep) at all,  *)
(* a step that returns yields a defined (finite) total loss and defined    *)
(* ADE / FDE metrics.                                                      *)
(***************************************************************************)
C16_MaskSelectsNothing ==
    MaskSum(InterestMask(sup.agents_future_valid, sup.in.agents_interested), AgentSteps) = 0

C16_EmptyMaskLossIsDefined ==
    (sup.pc = "done" /\ C16_MaskSelectsNothing) =>
        /\ IsFinite(sup.returned.value)
        /\ "denoise_ADE" \in DOMAIN sup.log_dict =>
              IsFinite(sup.log_dict.denoise_ADE) /\ IsFinite(sup.log_dict.denoise_FDE)

(***************************************************************************)
(* C17.  goal_loss makes a hard best-of-K choice per agent: if the agent's *)
(* final ground-truth step is valid the selected index is the anchor (in   *)
(* the global frame) nearest the ground-truth endpoint, otherwise it is    *)
(* the candidate whose masked mean displacement to the ground-truth        *)
(* trajectory is lowest; the trajectory loss is taken on that one selected *)
(* trajectory and the cross-entropy label is the same selected index.      *)
(***************************************************************************)
\* distance of anchor q of agent a to the agent's ground-truth endpoint
C17_EndpointDistance(b, a, q) ==
    Norm2(sup.goal.anchors_global[b][<<a, q>>], sup.in.agents_future[b][<<a, TrajLen>>])

C17_Selected(b, a) ==
    LET k == sup.goal.idx[b][a]
    IN  /\ k \in Queries
        /\ IF sup.agents_future_valid[b][<<a, TrajLen>>]
           THEN \A q \in Queries :
                    RLeq(C17_EndpointDistance(b, a, k), C17_EndpointDistance(b, a, q))
           ELSE \A q \in Queries :
                    RLeq(sup.goal.dist_mean[b][<<a, k>>], sup.goal.dist_mean[b][<<a, q>>])

C17_HardBestOfK ==
    /\ (sup.pc \in {"selected", "predicted", "done"} /\ sup.in.cfg.train_predictor) =>
          \A b \in Batch, a \in Agents : C17_Selected(b, a)
    /\ (sup.pc \in {"predicted", "done"} /\ sup.in.cfg.train_predictor) =>
          \A b \in Batch, a \in Agents :
              /\ \A t \in TrajSteps :
                    sup.goal.trajs_select[b][<<a, t>>] =
                        sup.in.goal_trajs[b][<<a, sup.goal.idx[b][a], t>>]
              /\ sup.goal.score_loss[b][a].term.label = sup.goal.idx[b][a]
          /\ sup.goal.traj_loss_mean =
                GoalLossOf([p \in Batch |-> [i \in Agents \X Queries \X TrajSteps |->
                                sup.goal.trajs_select[p][<<i[1], i[3]>>]]],
                           sup.in.goal_scores, sup.in.agents_future,
                           sup.agents_future_valid, sup.in.agents_interested,
                           [p \in Batch |-> [r \in Agents |-> 1]]).traj_loss_mean

\* a step with an agent whose endpoint is valid and an agent whose endpoint
\* is not, where the nearest anchor and the lowest-displacement candidate
\* are different candidates for both
C17_Witness ==
    /\ sup.pc = "predicted"
    /\ \E b \in Batch, a \in Agents :
          /\ sup.agents_future_valid[b][<<a, TrajLen>>]
          /\ sup.in.agents_interested[b][a] > 0
          /\ sup.goal.idx[b][a] = sup.goal.idx_anchor[b][a]
          /\ \E q \in Queries :
                RLess(sup.goal.dist_mean[b][<<a, q>>],
                      sup.goal.dist_mean[b][<<a, sup.goal.idx[b][a]>>])
    /\ \E b \in Batch, a \in Agents :
          /\ ~sup.agents_future_valid[b][<<a, TrajLen>>]
          /\ sup.in.agents_interested[b][a] > 0
          /\ sup.goal.idx[b][a] # sup.goal.idx_anchor[b][a]
          /\ \E q \in Queries :
                RLess(C17_EndpointDistance(b, a, q),
                      C17_EndpointDistance(b, a, sup.goal.idx[b][a]))

(***************************************************************************)
(* C18.  After configure_optimizers the parameters handed to the optimizer *)
(* are exactly the parameters of the encoder, the denoiser and (when       *)
(* present) the predictor whose train_* flag is true; the parameters of a  *)
(* module whose flag is false have requires_grad = False and keep it; no   *)
(* reference-policy parameter is in the set; and the call fails with an    *)
(* assertion exactly when the set is empty.                                *)
(***************************************************************************)
C18_Trained ==
    (IF cfg.train_encoder THEN EncoderParams ELSE {})
    \cup (IF cfg.train_denoiser THEN DenoiserParams ELSE {})
    \cup (IF cfg.with_predictor /\ cfg.train_predictor THEN {Obj("predictor", "weight")} ELSE {})

C18_Configured == phase \in {"fitting", "failed"}

C18_OptimizerGetsTrainedModules ==
    /\ C18_Configured =>
          /\ params_to_update = C18_Trained
          /\ params_to_update \cap ReferenceParams = {}
          /\ \A a \in DOMAIN params : a \notin C18_Trained => ~params[a].requires_grad
    /\ lastOp = "configure_optimizers" =>
          /\ C18_Configured
          /\ phase = "failed" <=> params_to_update = {}

\* after an optimizer update of a module that trains the denoiser only and
\* has a predictor
C18_Witness ==
    /\ phase = "fitting"
    /\ lastOp = "optimizer_step"
    /\ cfg.train_denoiser /\ ~cfg.train_encoder
    /\ cfg.with_predictor /\ ~cfg.train_predictor
    /\ params_to_update = DenoiserParams

(***************************************************************************)
(* C19.  unnormalize_actions(normalize_actions(a)) = a and                 *)
(* normalize_actions(unnormalize_actions(a)) = a, for every action tensor  *)
(* a and every per-channel mean and non-zero std, in exact arithmetic.     *)
(***************************************************************************)
C19_RoundTripIsIdentity ==
    /\ (Len(rt.applied) >= 2 /\ SubSeq(rt.applied, 1, 2) = <<"normalize_actions", "unnormalize_actions">>)
          => rt.values[3] = rt.actions
    /\ (Len(rt.applied) >= 2 /\ SubSeq(rt.applied, 1, 2) = <<"unnormalize_actions", "normalize_actions">>)
          => rt.values[3] = rt.actions

\* a round trip through a normalized tensor that differs from the actions,
\* with a negative std on one channel and a fractional std on the other
C19_Witness ==
    /\ rt.applied = <<"normalize_actions", "unnormalize_actions">>
    /\ \A s \in Slots : rt.values[2][s] # rt.actions[s]
    /\ buffers.action_std = Channels(R(-2), <<1, 2>>)
    /\ buffers.action_mean = Channels(<<1, 2>>, R(-1))

(***************************************************************************)
(* C20.  The normalization constants action_mean / action_std are changed  *)
(* by no training step, validation step or reference sync (nor by any      *)
(* stage of forward_and_get_loss), every invocation of the denoising       *)
(* policy, trainable or reference, receives the denormalized form of the   *)
(* noised actions, and add_noise, q_x0 and step receive normalized         *)
(* tensors only: the normalized ground truth, the outputs of add_noise and *)
(* step, and the output of q_x0.                                           *)
(***************************************************************************)
C20_Normalized(actions) == [b \in Batch |-> normalize_actions(buffers, actions[b])]
C20_Unnormalized(actions_normalized) ==
    [b \in Batch |-> unnormalize_actions(buffers, actions_normalized[b])]

\* the recorded calls of a supervised step
C20_SupervisedCalls ==
    sup.pc \notin {"idle", "start"} =>
        \A k \in 1..Len(sup.calls) :
            LET call == sup.calls[k]
            IN  /\ call.op = "add_noise" => call.x0 = C20_Normalized(sup.in.gt_actions)
                /\ call.op = "denoiser" =>
                      /\ k < Len(sup.calls)
                      /\ sup.calls[k + 1].op = "q_x0"
                      /\ call.noisy_actions = C20_Unnormalized(sup.calls[k + 1].x_t)
                /\ call.op = "q_x0" =>
                      \/ call.x_t = C20_Normalized(sup.in.gt_actions)
                      \/ call.x_t = sup.add_noise_output
                      \/ call.x_t = sup.in.step
                /\ call.op = "step" =>
                      /\ call.sample = sup.add_noise_output
                      /\ call.model_output = sup.x_0

\* the recorded calls of a GRPO step
C20_GRPOCalls ==
    /\ loss.pc \notin {"idle", "start", "prepared"} =>
          \A g \in 1..loss.in.cfg.group_size :
              loss.add_noise_calls[g].x0 = C20_Normalized(loss.in.gt_actions)
    /\ Denoised =>
          \A g \in 1..loss.in.cfg.group_size :
              LET o == loss.denoise_outputs[g]
              IN  /\ o.denoiser_call.noisy_actions =
                         C20_Unnormalized(loss.noised_action_normalized[g])
                  /\ o.reference_call.noisy_actions =
                         C20_Unnormalized(loss.noised_action_normalized[g])
                  /\ \A b \in Batch :
                        o.denoised_actions_normalized[b] =
                            QX0(o.denoiser_output[b], loss.diffusion_steps[b],
                                loss.noised_action_normalized[g][b],
                                loss.in.cfg.prediction_type)

C20_ConstantsFixedPolicyDenormalized ==
    /\ [][buffers' = buffers]_vars
    /\ [](C20_SupervisedCalls /\ C20_GRPOCalls)

\* a supervised replay step past its main pass, under a normalization that is
\* not the identity: the policy's input differs from what q_x0 receives
C20_Witness ==
    /\ sup.pc = "denoised"
    /\ sup.in.cfg.replay_buffer
    /\ buffers.action_std # Channels(R(1), R(1))
    /\ Len(sup.calls) = 6
    /\ sup.calls[5].noisy_actions # sup.calls[6].x_t
    /\ sup.calls[2].noisy_actions # sup.calls[3].x_t

(***************************************************************************)
(* C21.  In the GRPO engine the logged denoise_ADE / denoise_FDE are       *)
(* computed from the mean over the G candidates of the denoised            *)
(* trajectories, restricted to the first 8 agent slots and to the (agent,  *)
(* timestep) pairs that are both valid and of interest; they are not       *)
(* computed per candidate.                                                 *)
(***************************************************************************)
\* distance of the candidates' mean position to the ground truth
C21_Distance(trajs, agents_future, G, b, a, t) ==
    Norm2([x |-> RDiv(RSum([g \in 1..G |-> trajs[g][b][<<a, t>>].x]), R(G)),
           y |-> RDiv(RSum([g \in 1..G |-> trajs[g][b][<<a, t>>].y]), R(G))],
          agents_future[b][<<a, t>>])

\* the pairs the metric is taken over: first 8 slots, valid, of interest
C21_Picked(valid, interested, A, steps) ==
    {p \in Batch \X (1..Min(8, A)) \X (1..Len(steps)) :
        valid[p[1]][<<p[2], steps[p[3]]>>] /\ interested[p[1]][p[2]] > 0}

\* the distances of one agent summed over its picked timesteps
C21_AgentSum(trajs, agents_future, G, picked, steps, b, a) ==
    RSum(Storage([k \in 1..Len(steps) |->
                    IF <<b, a, k>> \in picked
                    THEN C21_Distance(trajs, agents_future, G, b, a, steps[k])
                    ELSE R(0)], Len(steps)))

C21_BatchSum(trajs, agents_future, G, picked, steps, A, b) ==
    RSum(Storage([a \in 1..Min(8, A) |->
                    C21_AgentSum(trajs, agents_future, G, picked, steps, b, a)],
                 Min(8, A)))

\* the mean distance over the picked pairs, nan when none is picked
C21_MeanOver(trajs, agents_future, G, picked, steps, A) ==
    IF picked = {} THEN NaN
    ELSE RDiv(RSum(Storage([b \in Batch |->
                              C21_BatchSum(trajs, agents_future, G, picked, steps, A, b)],
                           BatchSize)),
              R(Cardinality(picked)))

C21_Expected(trajs, agents_future, valid, interested, G, A, steps) ==
    C21_MeanOver(trajs, agents_future, G, C21_Picked(valid, interested, A, steps), steps, A)

C21_AllSteps == [t \in 1..TrajLen |-> t]

C21_MetricsOfGroupMean ==
    /\ loss.pc = "done" =>
          LET trajs == [g \in 1..loss.in.cfg.group_size |->
                           loss.denoise_outputs[g].denoised_trajs]
          IN  /\ loss.log_dict.denoise_ADE =
                    C21_Expected(trajs, loss.in.agents_future, loss.agents_future_valid,
                                 loss.in.agents_interested, loss.in.cfg.group_size,
                                 NumAgents, C21_AllSteps)
              /\ loss.log_dict.denoise_FDE =
                    C21_Expected(trajs, loss.in.agents_future, loss.agents_future_valid,
                                 loss.in.agents_interested, loss.in.cfg.group_size,
                                 NumAgents, <<TrajLen>>)
    /\ (fn.op = "calculate_metrics_denoise" /\ fn.pc = "returned") =>
          /\ fn.out.denoise_ADE =
                C21_Expected(fn.in.denoised_trajs, fn.in.agents_future,
                             fn.in.agents_future_valid, fn.in.agents_interested,
                             GroupSize, MetricAgents, C21_AllSteps)
          /\ fn.out.denoise_FDE =
                C21_Expected(fn.in.denoised_trajs, fn.in.agents_future,
                             fn.in.agents_future_valid, fn.in.agents_interested,
                             GroupSize, MetricAgents, <<TrajLen>>)

\* a call on more than 8 agents, all of interest, one pair invalid, with two
\* candidates displaced to opposite sides of the ground truth: the error of
\* their mean is 0 although every candidate is off by 3, and the agents
\* beyond slot 8 are off by 12
C21_Witness ==
    /\ fn.op = "calculate_metrics_denoise" /\ fn.pc = "returned"
    /\ MetricAgents > 8
    /\ \A b \in Batch, a \in 1..MetricAgents : fn.in.agents_interested[b][a] > 0
    /\ ~fn.in.agents_future_valid[1][<<1, TrajLen>>]
    /\ fn.in.agents_future_valid[1][<<2, TrajLen>>]
    /\ fn.in.denoised_trajs[1][1][<<8, 1>>].x = R(4)
    /\ fn.in.denoised_trajs[2][1][<<8, 1>>].x = R(-2)
    /\ fn.out.denoise_ADE = R(0)

(***************************************************************************)
(* C22.  The heading error of the sample-mode denoise loss is wrapped to   *)
(* [-pi, pi] before its absolute value is taken: the yaw term is at most   *)
(* pi and does not change when either heading is shifted by whole turns;   *)
(* a true heading 3.13 and a predicted heading -3.13 give a small error.   *)
(***************************************************************************)
C22_YawLossWrapped ==
    fn.op = "yaw_loss" =>
        /\ \A i \in 1..Len(fn.out) :
              /\ RLeq(R(0), fn.out[i].yaw_loss)
              /\ RLeq(fn.out[i].yaw_loss, Pi)
        /\ \A i, j \in 1..Len(fn.out) : fn.out[i].yaw_loss = fn.out[j].yaw_loss
        /\ (fn.theta = <<-313, 100>> /\ fn.theta_gt = <<313, 100>> /\ fn.out # <<>>) =>
              RLess(fn.out[1].yaw_loss, <<1, 10>>)

\* the headings -3.13 and 3.13, evaluated as they are and with the predicted
\* heading two turns on and the true heading one turn back
C22_Witness ==
    /\ fn.op = "yaw_loss"
    /\ fn.theta = <<-313, 100>> /\ fn.theta_gt = <<313, 100>>
    /\ Len(fn.out) = 2
    /\ fn.out[1].k = 0 /\ fn.out[1].k_gt = 0
    /\ fn.out[2].k = 2 /\ fn.out[2].k_gt = -1
    /\ RLess(R(6), YawLossUnwrapped(fn.theta, fn.theta_gt))
    /\ RLess(fn.out[2].yaw_loss, <<1, 10>>)

(***************************************************************************)
(* C23.  A denoiser invocation whose number of agents differs from the     *)
(* configured predicted_agents_num, or whose scene embedding has fewer     *)
(* agents than agents_len, raises and returns no denoised output; the      *)
(* exception is the assertion failure (a prediction type that q_x0 rejects *)
(* is reported first when the agent count itself is right), and whatever   *)
(* is returned has the configured number of agents.                        *)
(***************************************************************************)
C23_Mismatch ==
    \/ fn.agents # fn.cfg.predicted_agents_num
    \/ fn.enc_agents < fn.cfg.agents_len

C25_Keys ==
    {"agents", "anchors", "agents_type", "agents_mask", "maps_mask",
     "traffic_lights_mask", "relation_encodings", "encodings"}

C26_SameActions ==
    \A g \in 1..loss.in.cfg.group_size :
        loss.denoise_outputs[g].denoised_actions = loss.denoise_outputs[g].denoised_actions_old

C26_SamePolicyNoLoss ==
    (loss.pc \in {"scored", "done"} /\ C26_SameActions) =>
        /\ \A i \in DOMAIN loss.ratios.data : loss.ratios.data[i] = [ln |-> R(0)]
        /\ loss.policy_loss = R(0)
        /\ loss.kl_penalty.times = loss.kl_div
        /\ \A i \in DOMAIN loss.kl_div.mean_of.data :
              /\ loss.kl_div.mean_of.data[i].ratio = [ln |-> R(0)]
              /\ loss.kl_div.mean_of.data[i].minus = R(1)
              /\ loss.kl_div.mean_of.data[i].minus_log = R(0)

\* both models are off the ground truth by the same amount, and the
\* candidates of one batch element are rewarded differently
C26_Witness ==
    /\ loss.pc = "done"
    /\ C26_SameActions
    /\ \E b \in Batch : loss.action_differences.data[b] # R(0)
    /\ \E i \in DOMAIN loss.advantages.data : loss.advantages.data[i] # R(0)
    /\ loss.policy_loss = R(0)

(***************************************************************************)
(* C27.  In the supervised forward_and_get_loss the timestep the denoising *)
(* network is conditioned on, the last agent's entry of the [B, A]         *)
(* timestep tensor, equals for every agent of that batch element the       *)
(* timestep add_noise noised the agent's actions with and the timestep     *)
(* q_x0 recovers them with.                                                *)
(***************************************************************************)
C27_Calls(op) == {i \in 1..Len(sup.calls) : sup.calls[i].op = op}

C27_NetworkTimestepIsNoiseTimestep ==
    sup.pc \notin {"idle", "start"} =>
        \A i \in C27_Calls("denoiser") :
            /\ \A j \in C27_Calls("add_noise"), b \in Batch, a \in Agents :
                  sup.calls[i].diffusion_time[b] = sup.calls[j].t[b][a]
            /\ \A j \in C27_Calls("q_x0"), b \in Batch, a \in Agents :
                  sup.calls[i].diffusion_time[b] = sup.calls[j].t[b][a]

\* a returned step that noised, ran the network and inverted, with
\* different timesteps for the two batch elements
C27_Witness ==
    /\ sup.pc = "done"
    /\ C27_Calls("denoiser") # {}
    /\ C27_Calls("add_noise") # {}
    /\ C27_Calls("q_x0") # {}
    /\ \A i \in C27_Calls("denoiser") :
          sup.calls[i].diffusion_time[1] # sup.calls[i].diffusion_time[BatchSize]

(***************************************************************************)
(* C28.  forward_and_get_loss returns a loss, a scalar tensor, only if the *)
(* denoiser or the predictor is trained; when neither is (a missing        *)
(* predictor forces train_predictor off) the step ends in an error, and no *)
(* returned loss is the initial 0 that no module added to.                 *)
(***************************************************************************)
C28_NeitherTrained(c) == ~c.train_denoiser /\ ~(c.with_predictor /\ c.train_predictor)

C28_LossNeedsATrainedModule ==
    /\ lastOp \in {"training_step", "validation_step"} => ~C28_NeitherTrained(cfg)
    /\ (phase = "fitting" /\ C28_NeitherTrained(cfg)) => lastOp \notin {"optimizer_step"}
    /\ lastOp = "error" => (C28_NeitherTrained(cfg) /\ phase = "failed")
    /\ sup.pc = "done" =>
          /\ sup.in.cfg.train_denoiser \/ sup.in.cfg.train_predictor
          /\ sup.returned.tensor
          /\ sup.returned # IntZero
    /\ (sup.pc \notin {"idle", "start", "prepared", "denoise_done"}
          /\ ~sup.in.cfg.train_denoiser /\ ~sup.in.cfg.train_predictor) =>
          /\ sup.pc = "raised"
          /\ sup.total_loss = IntZero
    /\ loss.pc = "done" => "total_loss" \in DOMAIN loss

\* a module configured to train a predictor it does not have, and nothing
\* else but the encoder: its step has failed
C28_Witness ==
    /\ cfg.train_predictor /\ ~cfg.with_predictor /\ ~cfg.train_denoiser
    /\ lastOp = "error"
    /\ phase = "failed"

\* the supervised step with both flags off has raised on the int 0
C28_Supervised_Witness ==
    /\ sup.pc = "raised"
    /\ ~sup.in.cfg.train_denoiser /\ ~sup.in.cfg.train_predictor
    /\ sup.error = "'int' object has no attribute 'item'"

(***************************************************************************)
(* C29.  With the default weights compute_grpo_trajectory_reward is at     *)
(* most 0 for every candidate and batch element, and it is 0 only if the   *)
(* speed is v_target at every timestep, the heading is constant, no two    *)
(* agents are closer than collision_dist at any timestep, and all actions  *)
(* are zero.                                                               *)
(***************************************************************************)
C29_AtTargetSpeed(traj, v_target) ==
    \A i \in Agents \X TrajSteps :
        RAdd(RSq(traj[i].v_x), RSq(traj[i].v_y)) = RSq(v_target)

C29_HeadingConstant(traj) ==
    \A n \in Agents, t \in TrajSteps : traj[<<n, t>>].theta = traj[<<n, 1>>].theta

C29_NoneCloser(traj, collision_dist) ==
    \A n \in Agents, m \in Agents, t \in TrajSteps :
        n # m => RLeq(RSq(collision_dist),
                      RAdd(RSq(RSub(traj[<<n, t>>].x, traj[<<m, t>>].x)),
                           RSq(RSub(traj[<<n, t>>].y, traj[<<m, t>>].y))))

C29_ActionsZero(actions, g, b) ==
    actions # NoActions => \A s \in Slots : actions[g][b][s] = R(0)

C29_RewardNeverPositive ==
    (fn.op = "reward" /\ fn.pc = "returned") =>
        \A g \in Group, b \in Batch :
            /\ RLeq(At(fn.out, g, b), R(0))
            /\ At(fn.out, g, b) = R(0) =>
                  /\ C29_AtTargetSpeed(fn.in.trajectories[g][b], fn.v_target)
                  /\ C29_HeadingConstant(fn.in.trajectories[g][b])
                  /\ C29_NoneCloser(fn.in.trajectories[g][b], fn.collision_dist)
                  /\ C29_ActionsZero(fn.in.actions, g, b)

\* one call whose first slice has agents 1 apart and is penalised while the
\* other slices, at target speed, straight, far apart and with zero actions,
\* get exactly 0
C29_Witness ==
    /\ fn.op = "reward" /\ fn.pc = "returned"
    /\ fn.in.actions # NoActions
    /\ ~C29_NoneCloser(fn.in.trajectories[1][1], fn.collision_dist)
    /\ C29_AtTargetSpeed(fn.in.trajectories[1][1], fn.v_target)
    /\ C29_HeadingConstant(fn.in.trajectories[1][1])
    /\ C29_ActionsZero(fn.in.actions, 1, 1)
    /\ RLess(At(fn.out, 1, 1), R(0))
    /\ At(fn.out, GroupSize, BatchSize) = R(0)

(***************************************************************************)
(* C30.  The learning-rate multiplier lr_update lies in [0.01, 1] at every *)
(* step; with a warm-up it is 0.05 at step 0 and does not decrease from    *)
(* one warm-up step to the next; and for 0 < gamma <= 1 it does not        *)
(* increase from one step to the next from warmup_step onward.             *)
(***************************************************************************)
C30_MultiplierBoundedAndMonotone ==
    fn.op = "lr_update" =>
        /\ RLeq(<<1, 100>>, fn.lr_scale) /\ RLeq(fn.lr_scale, R(1))
        /\ (fn.warmup_step > 0 /\ fn.step = 0) => fn.lr_scale = <<1, 20>>
        /\ (fn.step >= 1 /\ fn.step < fn.warmup_step) => RLeq(fn.last_lr_scale, fn.lr_scale)
        /\ (fn.step - 1 >= fn.warmup_step /\ RLess(R(0), fn.gamma) /\ RLeq(fn.gamma, R(1)))
              => RLeq(fn.lr_scale, fn.last_lr_scale)

\* past a warm-up of three steps, gamma 1/10 has decayed to the floor
C30_Witness ==
    /\ fn.op = "lr_update"
    /\ fn.warmup_step = 3 /\ fn.step_size = 1 /\ fn.gamma = <<1, 10>>
    /\ fn.step = 6
    /\ fn.last_lr_scale = <<1, 100>> /\ fn.lr_scale = <<1, 100>>

Init ==
    /\ InitLife
    /\ \E n \in Normalizations : buffers = RegisterBuffers(n.mean, n.std)
    /\ loss = NoLoss
    /\ rw = NoReward
    /\ sup = NoSup
    /\ rt = NoRoundTrip
    /\ fn = NoCall

Next ==
    \/ configure_optimizers
    \/ training_step
    \/ optimizer_step
    \/ validation_step
    \/ on_train_epoch_end

Spec == Init /\ [][Next]_vars

\* the module while one forward_and_get_loss call runs: the trainer calls no
\* other hook until the call returns
IdleLife ==
    /\ cfg = [train_encoder |-> TRUE, train_denoiser |-> TRUE,
              train_predictor |-> FALSE, with_predictor |-> FALSE]
    /\ params = Construct(cfg, [k \in ParamKeys |-> 0], 0, 0)
    /\ params_to_update = {}
    /\ phase = "in_step"
    /\ lastOp = "__init__"
    /\ fwd = NoForward
    /\ current_epoch = 0

InitL ==
    /\ IdleLife
    /\ InitLoss
    /\ buffers = RegisterBuffers(loss.in.cfg.action_mean, loss.in.cfg.action_std)
    /\ rw = NoReward
    /\ sup = NoSup
    /\ rt = NoRoundTrip
    /\ fn = NoCall

NextLoss ==
    \/ PrepareGroundTruth
    \/ NoiseCandidates
    \/ DenoiseCandidates
    \/ ScoreCandidates
    \/ ImportanceRatios
    \/ Advantages
    \/ GRPOLoss
    \/ ReturnLoss

SpecLoss == InitL /\ [][NextLoss]_vars

InitR ==
    /\ IdleLife
    /\ buffers = RegisterBuffers(Channels(R(0), R(0)), Channels(R(1), R(1)))
    /\ loss = NoLoss
    /\ InitReward
    /\ sup = NoSup
    /\ rt = NoRoundTrip
    /\ fn = NoCall

NextReward == RewardBoth

SpecReward == InitR /\ [][NextReward]_vars

InitS ==
    /\ IdleLife
    /\ InitSup
    /\ buffers = RegisterBuffers(sup.in.cfg.action_mean, sup.in.cfg.action_std)
    /\ loss = NoLoss
    /\ rw = NoReward
    /\ rt = NoRoundTrip
    /\ fn = NoCall

NextSup ==
    \/ SupPrepare
    \/ SupSkipDenoiser
    \/ SupNoise
    \/ SupReplay
    \/ SupDenoise
    \/ SupDenoiseLoss
    \/ SupGoalSelect
    \/ SupPredict
    \/ SupReturn

SpecSup == InitS /\ [][NextSup]_vars

\* one forward_and_get_loss call of either engine
InitEngines == InitL \/ InitS

NextEngines == NextLoss \/ NextSup

SpecEngines == InitEngines /\ [][NextEngines]_vars

\* the two conversions applied to a drawn action tensor
InitRT ==
    /\ IdleLife
    /\ InitRoundTrip
    /\ loss = NoLoss
    /\ rw = NoReward
    /\ sup = NoSup
    /\ fn = NoCall

NextRoundTrip ==
    \/ NormalizeActions
    \/ UnnormalizeActions

SpecRoundTrip == InitRT /\ [][NextRoundTrip]_vars

\* the lifecycle of a module, or one forward_and_get_loss call of either
\* engine (no trainer hook runs inside a call: IdleLife's phase)
InitAll == Init \/ InitL \/ InitS

NextAll == Next \/ NextLoss \/ NextSup

SpecAll == InitAll /\ [][NextAll]_vars

\* one GRPO forward_and_get_loss call, or one stand-alone call of
\* calculate_metrics_denoise
InitMetricsCall ==
    /\ IdleLife
    /\ InitMetrics
    /\ buffers = RegisterBuffers(Channels(R(0), R(0)), Channels(R(1), R(1)))
    /\ loss = NoLoss
    /\ rw = NoReward
    /\ sup = NoSup
    /\ rt = NoRoundTrip

InitGRPOMetrics == InitL \/ InitMetricsCall

NextGRPOMetrics == NextLoss \/ CalculateMetricsDenoise

SpecGRPOMetrics == InitGRPOMetrics /\ [][NextGRPOMetrics]_vars

InitYawCall ==
    /\ IdleLife
    /\ InitYaw
    /\ buffers = RegisterBuffers(Channels(R(0), R(0)), Channels(R(1), R(1)))
    /\ loss = NoLoss
    /\ rw = NoReward
    /\ sup = NoSup
    /\ rt = NoRoundTrip

SpecYaw == InitYawCall /\ [][YawLossCall]_vars

InitShapesCall ==
    /\ IdleLife
    /\ InitShapes
    /\ buffers = RegisterBuffers(Channels(R(0), R(0)), Channels(R(1), R(1)))
    /\ loss = NoLoss
    /\ rw = NoReward
    /\ sup = NoSup
    /\ rt = NoRoundTrip

InitStepsCall ==
    /\ IdleLife
    /\ InitSteps
    /\ buffers = RegisterBuffers(Channels(R(0), R(0)), Channels(R(1), R(1)))
    /\ loss = NoLoss
    /\ rw = NoReward
    /\ sup = NoSup
    /\ rt = NoRoundTrip

NextShapes == ForwardDenoiserCall \/ DenoiserBranchCall

SpecShapes == (InitShapesCall \/ InitStepsCall) /\ [][NextShapes]_vars

InitEncoderCall ==
    /\ IdleLife
    /\ InitEncoder
    /\ buffers = RegisterBuffers(Channels(R(0), R(0)), Channels(R(1), R(1)))
    /\ loss = NoLoss
    /\ rw = NoReward
    /\ sup = NoSup
    /\ rt = NoRoundTrip

SpecEncoder == InitEncoderCall /\ [][EncoderForward]_vars

InitRewardCall ==
    /\ IdleLife
    /\ InitRewardScene
    /\ buffers = RegisterBuffers(Channels(R(0), R(0)), Channels(R(1), R(1)))
    /\ loss = NoLoss
    /\ rw = NoReward
    /\ sup = NoSup
    /\ rt = NoRoundTrip

SpecRewardSign == InitRewardCall /\ [][RewardCall]_vars

InitLrCall ==
    /\ IdleLife
    /\ InitLr
    /\ buffers = RegisterBuffers(Channels(R(0), R(0)), Channels(R(1), R(1)))
    /\ loss = NoLoss
    /\ rw = NoReward
    /\ sup = NoSup
    /\ rt = NoRoundTrip

SpecLr == InitLrCall /\ [][SchedulerStep]_vars

====
